---- MODULE Spec2Model ----
(***************************************************************************)
(* Verification model of the uniprot-mcp-server staging / query core:      *)
(*   - the query security gate (__query, __query_batch)     direct-query   *)
(*   - the agent-facing tools that forward SQL to /query    staging utils, *)
(*                                                          data-manager   *)
(*   - the chunking engine                                  chunking.ts    *)
(*   - the structured write tool (__store)                  store.ts       *)
(*                                                                         *)
(* SQL text is a sequence of lexical atoms.  A punctuation atom is one of  *)
(* the strings of Punct; every other atom is a word, a maximal run of \w   *)
(* characters.  Two adjacent word atoms are the same text as their         *)
(* concatenation, so texts are kept canonical with MergeWords.             *)
(***************************************************************************)
EXTENDS Integers, Sequences, FiniteSets, TLC

VARIABLES
    pc,        \* "idle", "pending" (a call has arrived), "done" (it has been answered)
    db,        \* the dataset behind ctx.sql
    db0,       \* the dataset as it was before the first call
    call,      \* the tool call being served, [tool, input]
    resp,      \* its response
    executed,  \* the SQL texts the call handed to the storage primitive, in order
    yielded,   \* what the storage primitive gave back for each of them, in order
    log        \* history: what the successful calls have stored so far

vars == <<pc, db, db0, call, resp, executed, yielded, log>>

----------------------------------------------------------------------------
(* Text: atoms                                                             *)

SP    == " "
NL    == "\n"
SEMI  == ";"
LC    == "--"
BO    == "/*"
BC    == "*/"
DQ    == "\""
SQ    == "'"
DOT   == "."
QM    == "?"
STAR  == "*"
COMMA == ","
LP    == "("
RP    == ")"
EQ    == "="
DOLLAR == "$"

Punct == {SP, NL, SEMI, LC, BO, BC, DQ, SQ, DOT, QM, STAR, COMMA, LP, RP, EQ, DOLLAR}
White == {SP, NL}

IsWord(a) == a \notin Punct

\* String.prototype.toLowerCase on the words the model uses; a word with no
\* upper-case letter is its own lower-case form.
LowerTable ==
    ("SELECT" :> "select") @@ ("Select" :> "select") @@ ("WITH" :> "with")
    @@ ("FROM" :> "from") @@ ("From" :> "from") @@ ("JOIN" :> "join")
    @@ ("LIMIT" :> "limit") @@ ("Limit" :> "limit") @@ ("DROP" :> "drop")
    @@ ("Drop" :> "drop") @@ ("TABLE" :> "table") @@ ("DELETE" :> "delete")
    @@ ("INSERT" :> "insert") @@ ("AS" :> "as") @@ ("WHERE" :> "where")
    @@ ("DISTINCT" :> "distinct") @@ ("COUNT" :> "count") @@ ("SQLITE_MASTER" :> "sqlite_master")
    @@ ("Sqlite_Master" :> "sqlite_master") @@ ("SQLITE_SCHEMA" :> "sqlite_schema") @@ ("MAIN" :> "main")
    @@ ("T" :> "t") @@ ("A" :> "a") @@ ("B" :> "b")

Lookup(table, w) == IF w \in DOMAIN table THEN table[w] ELSE w

toLowerCase(w) == Lookup(LowerTable, w)

\* The words that start with a decimal digit (what \d+ can match the start of).
DigitWords == {"0", "1", "2", "5", "10", "100", "501", "600", "1000"}

NumberOf(w) ==
    CASE w = "0" -> 0 [] w = "1" -> 1 [] w = "2" -> 2 [] w = "5" -> 5 [] w = "10" -> 10
      [] w = "100" -> 100
      [] w = "501" -> 501 [] w = "600" -> 600 [] w = "1000" -> 1000

Min(S) == CHOOSE i \in S : \A j \in S : i <= j
Max(S) == CHOOSE i \in S : \A j \in S : i >= j

\* Adjacent word atoms are one word.
RECURSIVE MergeWords(_)
MergeWords(s) ==
    LET I == {i \in 1..(Len(s) - 1) : IsWord(s[i]) /\ IsWord(s[i + 1])}
    IN  IF I = {} THEN s
        ELSE LET i == Min(I)
             IN  MergeWords(SubSeq(s, 1, i - 1) \o <<s[i] \o s[i + 1]>>
                            \o SubSeq(s, i + 2, Len(s)))

\* The least index i >= from with s[i] \in set, or 0.
IndexOf(s, set, from) ==
    LET I == {i \in from..Len(s) : s[i] \in set} IN IF I = {} THEN 0 ELSE Min(I)

\* The least index i >= from with s[i] not whitespace, or Len(s) + 1.
SkipWhite(s, from) ==
    LET I == {i \in from..Len(s) : s[i] \notin White}
    IN  IF from > Len(s) THEN from ELSE IF I = {} THEN Len(s) + 1 ELSE Min(I)

TrimStart(s) == SubSeq(s, SkipWhite(s, 1), Len(s))

TrimEnd(s) ==
    LET I == {i \in 1..Len(s) : s[i] \notin White}
    IN  IF I = {} THEN <<>> ELSE SubSeq(s, 1, Max(I))

trim(s) == TrimEnd(TrimStart(s))

----------------------------------------------------------------------------
(* direct-query: stripComments                                             *)

\* .replace(/--[^\n]*/g, ""): each "--" and what follows it up to, not
\* including, the next newline is deleted.
RECURSIVE StripLineComments(_)
StripLineComments(s) ==
    LET i == IndexOf(s, {LC}, 1)
        n == IndexOf(s, {NL}, i)
    IN  IF i = 0 THEN s
        ELSE IF n = 0 THEN SubSeq(s, 1, i - 1)
        ELSE SubSeq(s, 1, i - 1) \o StripLineComments(SubSeq(s, n, Len(s)))

\* .replace(/\/\*[\s\S]*?\*\//g, ""): each "/*" up to the first "*/" after it
\* is deleted; a "/*" with no "*/" after it is left in place.
RECURSIVE StripBlockComments(_)
StripBlockComments(s) ==
    LET i == IndexOf(s, {BO}, 1)
        c == IndexOf(s, {BC}, i + 1)
    IN  IF i = 0 \/ c = 0 THEN s
        ELSE SubSeq(s, 1, i - 1) \o StripBlockComments(SubSeq(s, c + 1, Len(s)))

\* Faulty variant of stripComments: line comments are kept (only block
\* comments are removed).
stripComments_keepLine(sql) ==
    MergeWords(trim(StripBlockComments(sql)))

stripComments(sql) ==
    MergeWords(trim(StripBlockComments(StripLineComments(sql))))

----------------------------------------------------------------------------
(* direct-query: configuration                                             *)

MAX_ROWS == 500
MAX_RESULT_BYTES == 1000000
MAX_BATCH_QUERIES == 20

DENIED_TABLES ==
    {"sqlite_master", "sqlite_schema", "sqlite_sequence", "sqlite_stat1", "sqlite_stat4"}

REDACTED_COLUMNS == {"credential_hash", "session_token", "identity_email"}

\* The alternatives of the six /\b(...)\b/i patterns, lower-cased.
BLOCKED_KEYWORDS ==
    {"insert", "update", "delete", "replace", "upsert",
     "create", "drop", "alter", "rename",
     "attach", "detach",
     "pragma",
     "vacuum", "reindex",
     "begin", "commit", "rollback", "savepoint", "release"}

ErrEmpty   == "Empty query"
ErrMulti   == "Multi-statement queries are not allowed"
ErrPrefix  == "Query must start with SELECT or WITH"
ErrKeyword == "Query contains blocked keyword"
ErrDenied(table) == "Access denied to table: " \o table

----------------------------------------------------------------------------
(* direct-query: isStrictReadOnly                                          *)

HasSemicolon(stripped) == \E i \in 1..Len(stripped) : stripped[i] = SEMI

\* /^(SELECT|WITH)\b/i
StartsWithSelectOrWith(stripped) ==
    /\ stripped # <<>>
    /\ IsWord(stripped[1])
    /\ toLowerCase(stripped[1]) \in {"select", "with"}

\* some pattern of BLOCKED_KEYWORDS matches: a whole word is a blocked keyword
HasBlockedKeyword(stripped) ==
    \E i \in 1..Len(stripped) :
        IsWord(stripped[i]) /\ toLowerCase(stripped[i]) \in BLOCKED_KEYWORDS

\* Faulty variant of CheckStripped: the blocked-keyword scan runs before the
\* semicolon and prefix checks.
CheckStripped_keywordFirst(stripped) ==
    IF stripped = <<>> THEN [valid |-> FALSE, error |-> ErrEmpty]
    ELSE IF HasBlockedKeyword(stripped) THEN [valid |-> FALSE, error |-> ErrKeyword]
    ELSE IF HasSemicolon(stripped) THEN [valid |-> FALSE, error |-> ErrMulti]
    ELSE IF ~StartsWithSelectOrWith(stripped) THEN [valid |-> FALSE, error |-> ErrPrefix]
    ELSE [valid |-> TRUE, error |-> ""]

\* The checks of isStrictReadOnly on the comment-stripped text, in order.
CheckStripped(stripped) ==
    IF stripped = <<>> THEN [valid |-> FALSE, error |-> ErrEmpty]
    ELSE IF HasSemicolon(stripped) THEN [valid |-> FALSE, error |-> ErrMulti]
    ELSE IF ~StartsWithSelectOrWith(stripped) THEN [valid |-> FALSE, error |-> ErrPrefix]
    ELSE IF HasBlockedKeyword(stripped) THEN [valid |-> FALSE, error |-> ErrKeyword]
    ELSE [valid |-> TRUE, error |-> ""]

isStrictReadOnly(sql) == CheckStripped(stripComments(sql))

----------------------------------------------------------------------------
(* direct-query: extractTableNames, validateTableAccess                    *)

\* The text of a run of atoms (the capture of "([^"]+)").
RECURSIVE Text(_)
Text(s) == IF s = <<>> THEN "" ELSE s[1] \o Text(Tail(s))

\* (?:"([^"]+)"|(\w+)) tried at index j: [ok, name, next].
MatchIdent(s, j) ==
    IF j > Len(s) THEN [ok |-> FALSE, name |-> "", next |-> j]
    ELSE IF s[j] = DQ
         THEN LET k == IndexOf(s, {DQ}, j + 1)
              IN  IF k > j + 1
                  THEN [ok |-> TRUE, name |-> Text(SubSeq(s, j + 1, k - 1)), next |-> k + 1]
                  ELSE [ok |-> FALSE, name |-> "", next |-> j]
         ELSE IF IsWord(s[j])
              THEN [ok |-> TRUE, name |-> s[j], next |-> j + 1]
              ELSE [ok |-> FALSE, name |-> "", next |-> j]

NoIdent(j) == [ok |-> FALSE, name |-> "", next |-> j]

\* The match that starts with identifier first, with second what the
\* optional group (?:\.(...))? found.
MatchQualified(first, second) ==
    IF second.ok /\ toLowerCase(second.name) # ""
    THEN [ok |-> TRUE,
          names |-> <<toLowerCase(first.name), toLowerCase(second.name)>>,
          next |-> second.next]
    ELSE [ok |-> TRUE, names |-> <<toLowerCase(first.name)>>, next |-> first.next]

\* The pattern after its keyword and white space, first being the first
\* identifier tried.
MatchAfterKeyword(s, i, first) ==
    IF ~first.ok THEN [ok |-> FALSE, names |-> <<>>, next |-> i + 1]
    ELSE MatchQualified(first,
                        IF first.next <= Len(s) /\ s[first.next] = DOT
                        THEN MatchIdent(s, first.next + 1)
                        ELSE NoIdent(first.next))

\* The whole pattern tried at index i: [ok, names, next].
MatchTableRef(s, i) ==
    IF ~(IsWord(s[i]) /\ toLowerCase(s[i]) \in {"from", "join"}
            /\ i < Len(s) /\ s[i + 1] \in White)
    THEN [ok |-> FALSE, names |-> <<>>, next |-> i + 1]
    ELSE MatchAfterKeyword(s, i, MatchIdent(s, SkipWhite(s, i + 1)))

\* Set.add in insertion order.
RECURSIVE AddAll(_, _)
AddAll(seq, names) ==
    IF names = <<>> THEN seq
    ELSE AddAll(IF \E k \in 1..Len(seq) : seq[k] = names[1] THEN seq
                ELSE Append(seq, names[1]),
                Tail(names))

\* stripped.matchAll(pattern): the matches from left to right, each search
\* resuming where the previous match ended.
RECURSIVE ScanTables(_, _, _)

\* The scan goes on behind match m.
ScanAfter(s, m, acc) == ScanTables(s, m.next, AddAll(acc, m.names))

ScanFirst(s, I, acc) == IF I = {} THEN acc ELSE ScanAfter(s, MatchTableRef(s, Min(I)), acc)

ScanTables(s, i, acc) == ScanFirst(s, {j \in i..Len(s) : MatchTableRef(s, j).ok}, acc)

\* The Set of table names, as the sequence of its insertion order.
extractTableNames(sql) == ScanTables(stripComments(sql), 1, <<>>)

RECURSIVE validateTableAccess(_)
validateTableAccess(tables) ==
    IF tables = <<>> THEN [valid |-> TRUE, error |-> ""]
    ELSE IF tables[1] \in DENIED_TABLES
         THEN [valid |-> FALSE, error |-> ErrDenied(tables[1])]
         ELSE validateTableAccess(Tail(tables))

----------------------------------------------------------------------------
(* direct-query: ensureLimit                                               *)

\* /\bLIMIT\s+(\d+|\?)/i
HasLimitPattern(stripped) ==
    \E i \in 1..Len(stripped) :
        /\ IsWord(stripped[i]) /\ toLowerCase(stripped[i]) = "limit"
        /\ i < Len(stripped) /\ stripped[i + 1] \in White
        /\ LET j == SkipWhite(stripped, i + 1)
           IN  j <= Len(stripped) /\ (stripped[j] \in DigitWords \/ stripped[j] = QM)

\* `${maxRows + 1}`: the decimal numeral of a number.
Numeral(n) == CHOOSE w \in DigitWords : NumberOf(w) = n

\* Faulty variant of ensureLimit: the LIMIT is appended to the text as
\* received instead of the comment-stripped text.
ensureLimit_raw(sql) ==
    sql \o (IF HasLimitPattern(stripComments(sql)) THEN <<>>
            ELSE <<SP, "LIMIT", SP, Numeral(MAX_ROWS + 1)>>)

\* hasLimit ? stripped : `${stripped} LIMIT ${maxRows + 1}`
WithLimit(stripped) ==
    stripped \o (IF HasLimitPattern(stripped) THEN <<>>
                 ELSE <<SP, "LIMIT", SP, Numeral(MAX_ROWS + 1)>>)

ensureLimit(sql) == WithLimit(stripComments(sql))

----------------------------------------------------------------------------
(* Result rows.  A row is a function from column names to values; a value  *)
(* is a number [num] or a text [text, rep]: the string text repeated rep   *)
(* times.  A list of rows is kept run-length encoded: a sequence of        *)
(* groups [n, row], n >= 1 consecutive copies of row.                      *)

Str(t) == [text |-> t, rep |-> 1]
Num(i) == [num |-> i]
IsText(v) == "text" \in DOMAIN v

\* JSON.stringify(...).length
DigitCount(i) == IF i < 10 THEN 1 ELSE IF i < 100 THEN 2 ELSE IF i < 1000 THEN 3 ELSE 4
JsonLenValue(v) == IF IsText(v) THEN Len(v.text) * v.rep + 2 ELSE DigitCount(v.num)

RECURSIVE SumOver(_, _)
SumOver(f, S) ==
    IF S = {} THEN 0 ELSE LET x == CHOOSE y \in S : TRUE IN f[x] + SumOver(f, S \ {x})

JsonLenRow(row) ==
    LET keys == DOMAIN row
        per == [k \in keys |-> Len(k) + 3 + JsonLenValue(row[k])]
    IN  2 + SumOver(per, keys) + (IF keys = {} THEN 0 ELSE Cardinality(keys) - 1)

RECURSIVE CountRows(_)
CountRows(rows) == IF rows = <<>> THEN 0 ELSE rows[1].n + CountRows(Tail(rows))

RECURSIVE JsonLenGroups(_)
JsonLenGroups(rows) ==
    IF rows = <<>> THEN 0
    ELSE rows[1].n * JsonLenRow(rows[1].row) + JsonLenGroups(Tail(rows))

JsonLenRows(rows) ==
    LET c == CountRows(rows) IN 2 + JsonLenGroups(rows) + (IF c = 0 THEN 0 ELSE c - 1)

\* rows.slice(0, k)
RECURSIVE Slice0(_, _)
Slice0(rows, k) ==
    IF rows = <<>> \/ k <= 0 THEN <<>>
    ELSE IF rows[1].n >= k THEN <<[n |-> k, row |-> rows[1].row]>>
    ELSE <<rows[1]>> \o Slice0(Tail(rows), k - rows[1].n)

----------------------------------------------------------------------------
(* direct-query: redactRow                                                 *)

REDACTED == Str("[REDACTED]")

\* Faulty variant of redactRow: only credential_hash is masked.
redactRow_hashOnly(row) ==
    [key \in DOMAIN row |-> IF key = "credential_hash" THEN REDACTED ELSE row[key]]

redactRow(row) ==
    [key \in DOMAIN row |-> IF key \in REDACTED_COLUMNS THEN REDACTED ELSE row[key]]

\* resultRows.map((row) => redactRow(row))
MapRedact(rows) == [i \in 1..Len(rows) |-> [n |-> rows[i].n, row |-> redactRow(rows[i].row)]]

----------------------------------------------------------------------------
(* The storage primitive behind ctx.sql / ctx.storage.sql.exec: the        *)
(* embedded SQL engine, on the statements the model's texts can spell.     *)
(* A dataset is a function from table names to run-length encoded rows.    *)

SqlKeywords ==
    {"select", "distinct", "with", "from", "join", "limit", "as", "where", "table"}
        \cup BLOCKED_KEYWORDS

\* The engine's own lexer: white space and comments separate tokens, a
\* quoted run is one token, names are case-insensitive.
NotWhite(a) == a \notin White

\* The token of an atom outside quotes and comments; lower is its lower case.
PlainToken(a, lower) ==
    IF IsWord(a)
    THEN [k |-> IF lower \in SqlKeywords THEN "kw" ELSE IF a \in DigitWords THEN "num" ELSE "id",
          v |-> lower]
    ELSE [k |-> "p", v |-> a]

PlainTokensOf(w) == [i \in 1..Len(w) |-> PlainToken(w[i], toLowerCase(w[i]))]

\* The tokens of a text with no quote and no comment.
PlainTokens(s) == PlainTokensOf(SelectSeq(s, NotWhite))

\* What ends the run that atom a opens.
Closer(a) == IF a = LC THEN {NL} ELSE IF a = BO THEN {BC} ELSE {a}

\* The token of a closed run: none for a comment, a name for "...", a
\* string for '...'.
Delimited(open, inner) ==
    IF open \in {LC, BO} THEN <<>>
    ELSE IF open = DQ THEN <<[k |-> "id", v |-> toLowerCase(Text(inner))]>>
    ELSE <<[k |-> "str", v |-> Text(inner), a |-> inner]>>

RECURSIVE Tokens(_)

\* The tokens from the run opened at i, which ends at n (0: it never ends).
TokensSpan(s, i, n) ==
    IF n = 0 THEN (IF s[i] \in {LC, BO} THEN <<>> ELSE <<[k |-> "bad", v |-> s[i]]>>)
    ELSE Delimited(s[i], SubSeq(s, i + 1, n - 1)) \o Tokens(SubSeq(s, n + 1, Len(s)))

\* The tokens of s, whose first quote or comment opens at i (0: none).
TokensFrom(s, i) ==
    PlainTokens(SubSeq(s, 1, IF i = 0 THEN Len(s) ELSE i - 1))
    \o (IF i = 0 THEN <<>> ELSE TokensSpan(s, i, IndexOf(s, Closer(s[i]), i + 1)))

Tokens(s) == TokensFrom(s, IndexOf(s, {LC, BO, DQ, SQ}, 1))

IsKw(t, w) == t.k = "kw" /\ t.v = w
IsP(t, a) == t.k = "p" /\ t.v = a

\* The index of the first ")" of toks, or 0.
FirstRP(toks, from) ==
    LET I == {i \in from..Len(toks) : IsP(toks[i], RP)} IN IF I = {} THEN 0 ELSE Min(I)

\* The functions the engine knows: count(*) and json_extract(column, path).
Functions == {"count", "json_extract"}

\* A function call "f ( args )" becomes one token [k = "call", v = f, args].
RECURSIVE FoldCalls(_)
FoldCalls(toks) ==
    LET I == {i \in 1..(Len(toks) - 2) :
                 /\ toks[i].k = "id" /\ toks[i].v \in Functions
                 /\ IsP(toks[i + 1], LP) /\ FirstRP(toks, i + 2) # 0}
    IN  IF I = {} THEN toks
        ELSE LET i == Min(I)
                 r == FirstRP(toks, i + 2)
             IN  SubSeq(toks, 1, i - 1)
                 \o <<[k |-> "call", v |-> toks[i].v, args |-> SubSeq(toks, i + 2, r - 1)]>>
                 \o FoldCalls(SubSeq(toks, r + 1, Len(toks)))

\* JSON documents are values [doc |-> record]; SQL NULL is Null.
Null == [null |-> TRUE]
Doc(r) == [doc |-> r]

\* json_extract(v, path) for the paths "$" and "$.field": [ok, v].
JsonExtract(v, path) ==
    IF path = <<DOLLAR>> THEN [ok |-> TRUE, v |-> v]
    ELSE IF Len(path) = 3 /\ path[1] = DOLLAR /\ path[2] = DOT /\ IsWord(path[3])
         THEN [ok |-> TRUE,
               v |-> IF "doc" \in DOMAIN v /\ path[3] \in DOMAIN v.doc
                     THEN v.doc[path[3]] ELSE Null]
    ELSE [ok |-> FALSE, v |-> Null]

IsCount(t) == t.k = "call" /\ t.v = "count" /\ Len(t.args) = 1 /\ IsP(t.args[1], STAR)
IsExtract(t) ==
    /\ t.k = "call" /\ t.v = "json_extract" /\ Len(t.args) = 3
    /\ t.args[1].k = "id" /\ IsP(t.args[2], COMMA) /\ t.args[3].k = "str"

\* The statements of a text: its tokens split at the semicolons.
SplitStatements(toks) ==
    LET n == Len(toks)
        cuts == {0, n + 1} \cup {i \in 1..n : IsP(toks[i], SEMI)}
        NextCut(a) == Min({b \in cuts : b > a})
        starts == {a \in cuts : a <= n /\ NextCut(a) > a + 1}
        Start(j) == CHOOSE a \in starts : Cardinality({b \in starts : b < a}) = j - 1
    IN  [j \in 1..Cardinality(starts) |->
            SubSeq(toks, Start(j) + 1, NextCut(Start(j)) - 1)]

\* The tables a SELECT reads: the names in its FROM lists, a list being
\* table references separated by commas or JOIN; a reference is name,
\* schema.name, (name) or a parenthesised subquery.  mode is "expect" where a
\* table reference may start, "after" behind one, "other" elsewhere.
RECURSIVE FromTables(_, _)
FromTables(toks, mode) ==
    IF toks = <<>> THEN <<>>
    ELSE IF mode = "other"
    THEN LET I == {i \in 1..Len(toks) : IsKw(toks[i], "from") \/ IsKw(toks[i], "join")}
         IN  IF I = {} THEN <<>>
             ELSE FromTables(SubSeq(toks, Min(I) + 1, Len(toks)), "expect")
    ELSE LET t == toks[1]
             rest == Tail(toks)
         IN  IF IsKw(t, "from") \/ IsKw(t, "join") THEN FromTables(rest, "expect")
             ELSE IF mode = "expect" /\ t.k = "id"
                  THEN IF Len(rest) >= 2 /\ IsP(rest[1], DOT) /\ rest[2].k = "id"
                       THEN <<rest[2].v>> \o FromTables(SubSeq(rest, 3, Len(rest)), "after")
                       ELSE <<t.v>> \o FromTables(rest, "after")
             ELSE IF mode = "expect" /\ IsP(t, LP) THEN FromTables(rest, "expect")
             ELSE IF mode = "after" /\ (IsP(t, COMMA) \/ IsKw(t, "join"))
                  THEN FromTables(rest, "expect")
             ELSE IF mode = "after" /\ (t.k = "id" \/ IsKw(t, "as") \/ IsP(t, RP))
                  THEN FromTables(rest, "after")
             ELSE FromTables(rest, "other")

\* The tokens outside every parenthesis.
RECURSIVE TopLevel(_, _)
TopLevel(toks, depth) ==
    LET I == {i \in 1..Len(toks) : IsP(toks[i], LP) \/ IsP(toks[i], RP)}
        p == Min(I)
        before(end) == IF depth = 0 THEN SubSeq(toks, 1, end) ELSE <<>>
    IN  IF I = {} THEN before(Len(toks))
        ELSE before(p - 1)
             \o TopLevel(SubSeq(toks, p + 1, Len(toks)),
                         IF IsP(toks[p], LP) THEN depth + 1
                         ELSE IF depth > 0 THEN depth - 1 ELSE 0)

\* The index of the first token of toks that is keyword w, or 0.
KwIndex(toks, w, from) ==
    LET I == {i \in from..Len(toks) : IsKw(toks[i], w)} IN IF I = {} THEN 0 ELSE Min(I)

\* The LIMIT clause of a SELECT whose top-level tokens are top, the keyword
\* at p (0: none): [ok, has, n].  A LIMIT is followed by one number or
\* parameter and ends the statement.
LimitAt(top, p, params) ==
    IF p = 0 THEN [ok |-> TRUE, has |-> FALSE, n |-> 0]
    ELSE IF p + 1 # Len(top) THEN [ok |-> FALSE, has |-> TRUE, n |-> 0]
    ELSE IF top[p + 1].k = "num"
         THEN [ok |-> TRUE, has |-> TRUE, n |-> NumberOf(top[p + 1].v)]
    ELSE IF IsP(top[p + 1], QM) /\ Len(params) = 1
         THEN [ok |-> TRUE, has |-> TRUE, n |-> params[1]]
    ELSE [ok |-> FALSE, has |-> TRUE, n |-> 0]

EmptyRow == [c \in {} |-> Num(0)]

MergeRow(r1, r2) ==
    [c \in DOMAIN r1 \cup DOMAIN r2 |-> IF c \in DOMAIN r2 THEN r2[c] ELSE r1[c]]

\* The rows of a comma or inner join with no condition: every pairing.
RECURSIVE PairEach(_, _)
PairEach(g, rows) ==
    IF rows = <<>> THEN <<>>
    ELSE <<[n |-> g.n * rows[1].n, row |-> MergeRow(g.row, rows[1].row)]>>
         \o PairEach(g, Tail(rows))

RECURSIVE Product(_, _)
Product(rows1, rows2) ==
    IF rows1 = <<>> THEN <<>>
    ELSE PairEach(rows1[1], rows2) \o Product(Tail(rows1), rows2)

RECURSIVE SourceRows(_, _)
SourceRows(d, tabs) ==
    IF tabs = <<>> THEN <<[n |-> 1, row |-> EmptyRow]>>
    ELSE Product(d[tabs[1]], SourceRows(d, Tail(tabs)))

\* The result columns of a SELECT: "*", or items "x" / "x AS y" separated by
\* commas, x a column, a number, a string or a function call.  [ok, items],
\* an item being [src, name].
RECURSIVE SelectItems(_)
SelectItems(toks) ==
    IF toks = <<>> THEN [ok |-> FALSE, items |-> <<>>]
    ELSE LET one == toks[1].k \in {"id", "num", "str"} \/ IsP(toks[1], STAR)
                    \/ IsCount(toks[1]) \/ IsExtract(toks[1])
             aliased == Len(toks) >= 3 /\ IsKw(toks[2], "as") /\ toks[3].k = "id"
             used == IF aliased THEN 3 ELSE 1
             item == [src |-> toks[1], name |-> IF aliased THEN toks[3].v ELSE toks[1].v]
         IN  IF ~one THEN [ok |-> FALSE, items |-> <<>>]
             ELSE IF Len(toks) = used THEN [ok |-> TRUE, items |-> <<item>>]
             ELSE IF IsP(toks[used + 1], COMMA)
                  THEN LET more == SelectItems(SubSeq(toks, used + 2, Len(toks)))
                       IN  [ok |-> more.ok, items |-> <<item>> \o more.items]
             ELSE [ok |-> FALSE, items |-> <<>>]

ItemNames(items, row) ==
    UNION {IF IsP(items[i].src, STAR) THEN DOMAIN row ELSE {items[i].name} :
             i \in 1..Len(items)}

ItemOk(item, row) ==
    /\ item.src.k = "id" => item.src.v \in DOMAIN row
    /\ IsExtract(item.src) =>
           /\ item.src.args[1].v \in DOMAIN row
           /\ JsonExtract(row[item.src.args[1].v], item.src.args[3].a).ok

\* The value of result column c: the last item that names it gives it.
ItemValue(items, row, c) ==
    LET i == CHOOSE j \in 1..Len(items) :
                 /\ (IF IsP(items[j].src, STAR) THEN c \in DOMAIN row ELSE items[j].name = c)
                 /\ \A k \in (j + 1)..Len(items) :
                        ~(IF IsP(items[k].src, STAR) THEN c \in DOMAIN row ELSE items[k].name = c)
        src == items[i].src
    IN  IF IsP(src, STAR) THEN row[c]
        ELSE IF src.k = "id" THEN row[src.v]
        ELSE IF src.k = "num" THEN Num(NumberOf(src.v))
        ELSE IF src.k = "call" THEN JsonExtract(row[src.args[1].v], src.args[3].a).v
        ELSE Str(src.v)

Project(items, row) == [c \in ItemNames(items, row) |-> ItemValue(items, row, c)]

\* SELECT DISTINCT: each row once, in order of first appearance.
RECURSIVE Dedupe(_, _)
Dedupe(rows, seen) ==
    IF rows = <<>> THEN <<>>
    ELSE IF rows[1].n = 0 \/ rows[1].row \in seen THEN Dedupe(Tail(rows), seen)
    ELSE <<[n |-> 1, row |-> rows[1].row]>> \o Dedupe(Tail(rows), seen \cup {rows[1].row})

\* A WHERE condition is "x = y", x and y a column, a number or a string.
IsOperand(t) == t.k \in {"id", "num", "str"}
OperandOk(t, row) == t.k = "id" => t.v \in DOMAIN row
OperandValue(t, row) ==
    IF t.k = "id" THEN row[t.v] ELSE IF t.k = "num" THEN Num(NumberOf(t.v)) ELSE Str(t.v)

BadSelect == [ok |-> FALSE, rows |-> <<>>]

\* The rows a SELECT gives for its kept source rows: one count, or one
\* projection per row.
Projected(sel, kept) ==
    IF \E i \in 1..Len(sel.items) : IsCount(sel.items[i].src)
    THEN <<[n |-> 1, row |-> [c \in {sel.items[1].name} |-> Num(CountRows(kept))]]>>
    ELSE [g \in 1..Len(kept) |-> [n |-> kept[g].n, row |-> Project(sel.items, kept[g].row)]]

Distinct(distinct, rows) == IF distinct THEN Dedupe(rows, {}) ELSE rows

Limited(lim, out) == [ok |-> TRUE, rows |-> IF lim.has THEN Slice0(out, lim.n) ELSE out]

\* The SELECT on the rows src of its tables.
SelectRows(distinct, sel, hasWhere, cond, lim, src) ==
    IF \/ \E g \in 1..Len(src), i \in 1..Len(sel.items) : ~ItemOk(sel.items[i], src[g].row)
       \/ /\ hasWhere
          /\ \E g \in 1..Len(src) :
                 ~OperandOk(cond[1], src[g].row) \/ ~OperandOk(cond[3], src[g].row)
    THEN BadSelect
    ELSE LET Holds(g) ==
                 ~hasWhere \/ OperandValue(cond[1], g.row) = OperandValue(cond[3], g.row)
         IN  Limited(lim, Distinct(distinct, Projected(sel, SelectSeq(src, Holds))))

\* The SELECT once parsed: sel its result columns, cond its WHERE
\* condition, tabs its tables, lim its LIMIT clause.
SelectParsed(d, distinct, sel, hasWhere, cond, tabs, lim, hasBad) ==
    IF \/ ~sel.ok \/ ~lim.ok \/ hasBad
       \/ hasWhere /\ ~(/\ Len(cond) = 3 /\ IsOperand(cond[1]) /\ IsP(cond[2], EQ)
                        /\ IsOperand(cond[3]))
       \/ /\ \E i \in 1..Len(sel.items) : IsCount(sel.items[i].src)
          /\ Len(sel.items) # 1
       \/ \E i \in 1..Len(tabs) : tabs[i] \notin DOMAIN d
    THEN BadSelect
    ELSE SelectRows(distinct, sel, hasWhere, cond, lim, SourceRows(d, tabs))

\* The SELECT whose top-level tokens are top, with FROM at f, WHERE at w and
\* LIMIT at l (0: none).
SelectClauses(d, distinct, body, top, f, w, l, params) ==
    SelectParsed(d, distinct,
                 SelectItems(SubSeq(top, 1, IF f # 0 THEN f - 1 ELSE IF w # 0 THEN w - 1
                                            ELSE IF l # 0 THEN l - 1 ELSE Len(top))),
                 w # 0,
                 IF w = 0 THEN <<>> ELSE SubSeq(top, w + 1, IF l # 0 THEN l - 1 ELSE Len(top)),
                 FromTables(body, "other"),
                 LimitAt(top, l, params),
                 \E i \in 1..Len(body) : body[i].k = "bad")

SelectTop(d, distinct, body, top, params) ==
    SelectClauses(d, distinct, body, top, KwIndex(top, "from", 1), KwIndex(top, "where", 1),
                  KwIndex(top, "limit", 1), params)

SelectBody(d, distinct, body, params) ==
    SelectTop(d, distinct, body, TopLevel(body, 0), params)

\* SELECT [DISTINCT] items [FROM tables] [WHERE x = y] [LIMIT n]: [ok, rows].
ExecSelect(d, toks, params) ==
    IF Len(toks) >= 2 /\ IsKw(toks[2], "distinct")
    THEN SelectBody(d, TRUE, FoldCalls(SubSeq(toks, 3, Len(toks))), params)
    ELSE SelectBody(d, FALSE, FoldCalls(SubSeq(toks, 2, Len(toks))), params)

SystemTables == {"sqlite_master"}

\* DROP TABLE name / DELETE FROM name: [ok, rows, db].
ExecWrite(d, toks) ==
    IF Len(toks) = 3 /\ toks[3].k = "id" /\ toks[3].v \in DOMAIN d \ SystemTables
       /\ IsKw(toks[1], "drop") /\ IsKw(toks[2], "table")
    THEN [ok |-> TRUE, rows |-> <<>>, db |-> [x \in DOMAIN d \ {toks[3].v} |-> d[x]]]
    ELSE IF Len(toks) = 3 /\ toks[3].k = "id" /\ toks[3].v \in DOMAIN d \ SystemTables
            /\ IsKw(toks[1], "delete") /\ IsKw(toks[2], "from")
    THEN [ok |-> TRUE, rows |-> <<>>,
          db |-> [x \in DOMAIN d |-> IF x = toks[3].v THEN <<>> ELSE d[x]]]
    ELSE [ok |-> FALSE, rows |-> <<>>, db |-> d]

StatementFails(d) == [ok |-> FALSE, rows |-> <<>>, db |-> d]

\* A SELECT leaves the dataset as it is.
ReadOnly(d, r) == [ok |-> r.ok, rows |-> r.rows, db |-> d]

\* The statement behind "WITH name AS ( SELECT ... )", inner being what the
\* parenthesised SELECT gave.
ExecWithMain(d, name, inner, rest, params) ==
    IF ~inner.ok THEN StatementFails(d)
    ELSE IF IsKw(rest[1], "select")
    THEN ReadOnly(d, ExecSelect([x \in DOMAIN d \cup {name} |->
                                    IF x = name THEN inner.rows ELSE d[x]],
                                rest, params))
    ELSE ExecWrite(d, rest)

\* WITH ..., r being the index of its first ")".
ExecWith(d, toks, r, params) ==
    IF Len(toks) >= 6 /\ toks[2].k = "id" /\ IsKw(toks[3], "as")
       /\ IsP(toks[4], LP) /\ r > 5 /\ r < Len(toks) /\ IsKw(toks[5], "select")
    THEN ExecWithMain(d, toks[2].v, ExecSelect(d, SubSeq(toks, 5, r - 1), <<>>),
                      SubSeq(toks, r + 1, Len(toks)), params)
    ELSE StatementFails(d)

\* One statement: [ok, rows, db].  SELECT ..., DROP TABLE name,
\* DELETE FROM name, or WITH name AS ( SELECT ... ) followed by a SELECT or
\* a DELETE; anything else is a syntax error.
ExecStatement(d, toks, params) ==
    IF IsKw(toks[1], "select") THEN ReadOnly(d, ExecSelect(d, toks, params))
    ELSE IF IsKw(toks[1], "with") THEN ExecWith(d, toks, FirstRP(toks, 1), params)
    ELSE ExecWrite(d, toks)

RECURSIVE ExecStatements(_, _, _, _)

\* What follows a statement that gave r.
ExecNext(r, stmts, params) ==
    IF r.ok THEN ExecStatements(r.db, Tail(stmts), params, r.rows)
    ELSE [ok |-> FALSE, rows |-> <<>>, db |-> r.db]

\* The statements of a text, one after the other; the rows are the last
\* statement's, and a failing statement ends the run with what came before
\* it done.
ExecStatements(d, stmts, params, rows) ==
    IF stmts = <<>> THEN [ok |-> TRUE, rows |-> rows, db |-> d]
    ELSE ExecNext(ExecStatement(d, stmts[1], IF Len(stmts) = 1 THEN params ELSE <<>>),
                  stmts, params)

\* sql.exec(text, ...bindings)
SqlExec(d, text, params) ==
    ExecStatements(d, SplitStatements(Tokens(text)), params, <<>>)

----------------------------------------------------------------------------
(* sql-helpers: executeSql                                                 *)

CountQM(text) == Cardinality({i \in 1..Len(text) : text[i] = QM})

\* query.split("?") must give params.length + 1 parts, unless there are no
\* params; then the tagged template runs the same text with the params bound.
executeSql(d, query, params) ==
    IF params # <<>> /\ CountQM(query) # Len(params)
    THEN [ok |-> FALSE, rows |-> <<>>, db |-> d]
    ELSE SqlExec(d, query, params)

----------------------------------------------------------------------------
(* direct-query: the __query and __query_batch handlers                    *)

QueryBlocked(msg) == [kind |-> "error", error |-> msg, error_code |-> "QUERY_BLOCKED"]
QueryError == [kind |-> "error", error |-> "engine error", error_code |-> "QUERY_ERROR"]
QueryTooLarge ==
    [kind |-> "error",
     error |-> "Result exceeds 1MB size limit. Add a LIMIT clause or narrow your SELECT columns.",
     error_code |-> "QUERY_TOO_LARGE"]

Blocked(d, msg) ==
    [resp |-> QueryBlocked(msg), executed |-> <<>>, yielded |-> <<>>, db |-> d]

\* What a handler leaves behind once it has run limitedSql.
Ran(limitedSql, run, reply) ==
    [resp |-> reply, executed |-> <<limitedSql>>,
     yielded |-> <<[ok |-> run.ok, rows |-> run.rows]>>, db |-> run.db]

\* rows.slice(0, MAX_ROWS) when there are more than MAX_ROWS.
Capped(rows) == IF CountRows(rows) > MAX_ROWS THEN Slice0(rows, MAX_ROWS) ELSE rows

\* The __query reply for the redacted rows.
QueryReply(run, redacted) ==
    IF ~run.ok THEN QueryError
    ELSE IF JsonLenRows(redacted) > MAX_RESULT_BYTES THEN QueryTooLarge
    ELSE [kind |-> "rows", rows |-> redacted, count |-> CountRows(redacted),
          truncated |-> CountRows(run.rows) > MAX_ROWS]

QueryRun(limitedSql, run) == Ran(limitedSql, run, QueryReply(run, MapRedact(Capped(run.rows))))

QueryChecked(d, readCheck, tableCheck, limitedSql, params) ==
    IF ~readCheck.valid THEN Blocked(d, readCheck.error)
    ELSE IF ~tableCheck.valid THEN Blocked(d, tableCheck.error)
    ELSE QueryRun(limitedSql, executeSql(d, limitedSql, params))

\* One pass of the __query handler on dataset d:
\* [resp, executed, yielded, db].
QueryHandler(d, querySql, params) ==
    QueryChecked(d, isStrictReadOnly(querySql),
                 validateTableAccess(extractTableNames(querySql)),
                 ensureLimit(querySql), params)

BatchRun(limitedSql, run) ==
    Ran(limitedSql, run,
        IF ~run.ok THEN QueryError
        ELSE [kind |-> "array", rows |-> MapRedact(Capped(run.rows))])

BatchChecked(d, readCheck, tableCheck, limitedSql, params) ==
    IF ~readCheck.valid THEN Blocked(d, readCheck.error)
    ELSE IF ~tableCheck.valid THEN Blocked(d, tableCheck.error)
    ELSE BatchRun(limitedSql, executeSql(d, limitedSql, params))

\* One iteration of the __query_batch loop: what is pushed to results.
BatchItem(d, q) ==
    BatchChecked(d, isStrictReadOnly(q.sql), validateTableAccess(extractTableNames(q.sql)),
                 ensureLimit(q.sql), q.params)

RECURSIVE BatchLoop(_, _, _)

\* The loop goes on behind an iteration that gave r.
BatchPush(r, queries, acc) ==
    BatchLoop(r.db, Tail(queries),
              [results |-> Append(acc.results, r.resp),
               executed |-> acc.executed \o r.executed,
               yielded |-> acc.yielded \o r.yielded,
               db |-> r.db])

BatchLoop(d, queries, acc) ==
    IF queries = <<>> THEN acc ELSE BatchPush(BatchItem(d, queries[1]), queries, acc)

BatchReply(r) ==
    [resp |-> [kind |-> "batch", results |-> r.results],
     executed |-> r.executed, yielded |-> r.yielded, db |-> r.db]

QueryBatchHandler(d, queries) ==
    IF Len(queries) > MAX_BATCH_QUERIES
    THEN Blocked(d, "Maximum 20 queries per batch")
    ELSE BatchReply(BatchLoop(d, queries,
                              [results |-> <<>>, executed |-> <<>>, yielded |-> <<>>, db |-> d]))

----------------------------------------------------------------------------
(* The gate's environment: a dataset and the calls an agent can make       *)

\* The bounds of the model.
MaxBatchLen == 2     \* the longest batch drawn from BatchPool
BigTextLen == 2500   \* the length of the long text values

Dataset0 ==
    [t      |-> <<[n |-> 400, row |-> [id |-> Num(1), name |-> Str("x")]],
                  [n |-> 600, row |-> [id |-> Num(2), name |-> Str("y")]]>>,
     users  |-> <<[n |-> 3, row |-> [name |-> Str("ann"),
                                     credential_hash |-> Str("h4sh"),
                                     session_token |-> Str("tok"),
                                     identity_email |-> Str("a@b.c")]]>>,
     big    |-> <<[n |-> 600, row |-> [id |-> Num(7),
                                       body |-> [text |-> "x", rep |-> BigTextLen]]]>>,
     vault  |-> <<[n |-> 500, row |-> [id |-> Num(9),
                                       credential_hash |-> [text |-> "k", rep |-> BigTextLen]]]>>,
     sqlite_master |-> <<[n |-> 4, row |-> [type |-> Str("table"), name |-> Str("t"),
                                            sql |-> Str("CREATE TABLE t (id, name)")]]>>]

Heads ==
    { <<"SELECT", SP, STAR, SP, "FROM">>,
      <<"select", SP, STAR, SP, "from">>,
      <<"SELECT", SP, "credential_hash", SP, "FROM">>,
      <<"SELECT", SP, "name", SP, "AS", SP, "credential_hash", SP, "FROM">>,
      <<"SELECT", SP, "credential_hash", SP, "AS", SP, "x", SP, "FROM">>,
      <<"SELECT", SP, SQ, "LIMIT", SP, "5", SQ, SP, "AS", SP, "note", COMMA, SP, STAR,
        SP, "FROM">>,
      <<"WITH", SP, "x", SP, "AS", SP, LP, "SELECT", SP, "1", RP, SP,
        "SELECT", SP, STAR, SP, "FROM">>,
      <<"WITH", SP, "x", SP, "AS", SP, LP, "SELECT", SP, "1", RP, SP, "DELETE", SP, "FROM">>,
      <<"WITH", SP, "x", SP, "AS", SP, LP, "SELECT", SP, "1", SP, "LIMIT", SP, "5", RP, SP,
        "DELETE", SP, "FROM">>,
      <<BO, SP, "c", SP, BC, SP, "SELECT", SP, STAR, SP, "FROM">>,
      <<"SELECT", SP, "1", SEMI, SP, "DROP", SP, "TABLE">>,
      <<"DROP", SP, "TABLE">>,
      <<"DR", BO, BC, "OP", SP, "TABLE">>,
      <<"DELETE", SP, "FROM">>,
      <<LC, SP, "SELECT", SP, STAR, SP, "FROM">>,
      <<"EXPLAIN", SP, "SELECT", SP, STAR, SP, "FROM">> }

Refs ==
    { <<SP, "t">>, <<SP, "x">>, <<SP, "users">>, <<SP, "big">>, <<SP, "vault">>,
      <<SP, "sqlite_master">>, <<SP, "SQLITE_MASTER">>, <<NL, "Sqlite_Master">>,
      <<SP, DQ, "sqlite_master", DQ>>, <<DQ, "sqlite_master", DQ>>,
      <<SP, "main", DOT, "sqlite_master">>,
      <<SP, DQ, "main", DQ, DOT, DQ, "SQLITE_MASTER", DQ>>,
      <<SP, "t", COMMA, SP, "sqlite_master">>,
      <<SP, "t", SP, "JOIN", SP, "sqlite_master">>,
      <<SP, "users", SP, "JOIN", SP, "t">>,
      <<SP, LP, "SELECT", SP, STAR, SP, "FROM", SP, "sqlite_master", RP>>,
      <<SP, LP, "sqlite_master", RP>> }

Tails ==
    { <<>>,
      <<SP, "LIMIT", SP, "5">>,
      <<SP, "limit", SP, "600">>,
      <<SP, "LIMIT", SP, QM>>,
      <<SP, LC, SP, SEMI, SP, "DROP", SP, "TABLE", SP, "t">>,
      <<SEMI, SP, "DROP", SP, "TABLE", SP, "t">>,
      <<SP, BO, SP, "DROP", SP, BC>>,
      <<SP, LC, SP, "LIMIT", SP, "5">>,
      <<SEMI>> }

Queries == {h \o r \o t : h \in Heads, r \in Refs, t \in Tails} \cup {<<>>, <<SP, LC, SP, "x">>}

ParamSets == {<<>>, <<5>>, <<600>>}

\* The queries batches are made of.
BatchPool ==
    { [sql |-> <<"SELECT", SP, STAR, SP, "FROM", SP, "t">>, params |-> <<>>],
      [sql |-> <<"SELECT", SP, STAR, SP, "FROM", SP, "users", SP, "LIMIT", SP, QM>>,
       params |-> <<5>>],
      [sql |-> <<"SELECT", SP, STAR, SP, "FROM", SP, "big">>, params |-> <<>>],
      [sql |-> <<"SELECT", SP, STAR, SP, "FROM", SP, "sqlite_master">>, params |-> <<>>],
      [sql |-> <<"SELECT", SP, STAR, SP, "FROM", SP, "t", COMMA, SP, "sqlite_master">>,
       params |-> <<>>],
      [sql |-> <<"SELECT", SP, "1", SEMI, SP, "DROP", SP, "TABLE", SP, "t">>, params |-> <<>>],
      [sql |-> <<"select", SP, STAR, SP, "from", SP, "nowhere">>, params |-> <<>>] }

Batches ==
    UNION {[1..n -> BatchPool] : n \in 0..MaxBatchLen}
        \cup {[i \in 1..(MAX_BATCH_QUERIES + 1) |->
                 [sql |-> <<"SELECT", SP, "1">>, params |-> <<>>]]}

NoCall == [tool |-> "none"]
NoResp == [kind |-> "none"]

InitGate ==
    /\ pc = "idle"
    /\ db = Dataset0
    /\ db0 = Dataset0
    /\ call = NoCall
    /\ resp = NoResp
    /\ executed = <<>>
    /\ yielded = <<>>
    /\ log = <<>>

\* An agent's code calls __query.
CallQuery ==
    /\ pc = "idle"
    /\ \E sql \in Queries, params \in ParamSets :
           call' = [tool |-> "__query", sql |-> sql, params |-> params]
    /\ pc' = "pending"
    /\ UNCHANGED <<db, db0, resp, executed, yielded, log>>

\* An agent's code calls __query_batch.
CallQueryBatch ==
    /\ pc = "idle"
    /\ \E queries \in Batches : call' = [tool |-> "__query_batch", queries |-> queries]
    /\ pc' = "pending"
    /\ UNCHANGED <<db, db0, resp, executed, yielded, log>>

\* The handler's outcome r becomes the state.
Answered(r) ==
    /\ resp' = r.resp
    /\ executed' = r.executed
    /\ yielded' = r.yielded
    /\ db' = r.db

\* The __query handler.
Query ==
    /\ pc = "pending"
    /\ call.tool = "__query"
    /\ Answered(QueryHandler(db, call.sql, call.params))
    /\ pc' = "done"
    /\ UNCHANGED <<db0, call, log>>

\* The __query_batch handler.
QueryBatch ==
    /\ pc = "pending"
    /\ call.tool = "__query_batch"
    /\ Answered(QueryBatchHandler(db, call.queries))
    /\ pc' = "done"
    /\ UNCHANGED <<db0, call, log>>

\* The response has been delivered; the next call may arrive.
Return ==
    /\ pc = "done"
    /\ pc' = "idle"
    /\ call' = NoCall
    /\ resp' = NoResp
    /\ executed' = <<>>
    /\ yielded' = <<>>
    /\ UNCHANGED <<db, db0, log>>

NextGate == CallQuery \/ CallQueryBatch \/ Query \/ QueryBatch \/ Return

SpecGate == InitGate /\ [][NextGate]_vars

----------------------------------------------------------------------------
(* Claims about the query gate (SpecGate)                                  *)

Done(tool) == pc = "done" /\ call.tool = tool

LimitSuffix == <<SP, "LIMIT", SP, "501">>

\* What the engine makes of a text: its statements.
Statements(text) == SplitStatements(Tokens(text))

\* A text the engine reads as one SELECT / WITH ... SELECT statement.
IsSingleRead(text) ==
    LET st == Statements(text)
    IN  /\ Len(st) = 1
        /\ IsKw(st[1][1], "select") \/ IsKw(st[1][1], "with")
        /\ \A i \in 1..Len(st[1]) : ~(st[1][i].k = "kw" /\ st[1][i].v \in BLOCKED_KEYWORDS)

\* The inputs of the call being served, as [sql, params] records.
CallQueries ==
    IF call.tool = "__query" THEN {[sql |-> call.sql, params |-> call.params]}
    ELSE IF call.tool = "__query_batch" THEN {call.queries[i] : i \in 1..Len(call.queries)}
    ELSE {}

ExecutedTextOk(e) ==
    /\ \E q \in CallQueries :
           e = stripComments(q.sql) \/ e = stripComments(q.sql) \o LimitSuffix
    /\ ~HasSemicolon(e)
    /\ IsWord(e[1]) /\ toLowerCase(e[1]) \in {"select", "with"}
    /\ \A i \in 1..Len(e) : IsWord(e[i]) => toLowerCase(e[i]) \notin BLOCKED_KEYWORDS
    /\ IsSingleRead(e)

\* C1: after any sequence of __query and __query_batch calls the dataset is
\* as it was before the sequence, and every SQL text that was executed is the
\* comment-stripped text of a query of the call, with at most " LIMIT 501"
\* appended; it has no semicolon, starts with SELECT or WITH, has no blocked
\* keyword as a whole word, and the engine reads it as one read statement.
C1_GateNeverMutates ==
    /\ db = db0
    /\ \A i \in 1..Len(executed) : ExecutedTextOk(executed[i])

\* C1 witness: a query whose comment hides "; DROP TABLE t" has been executed
\* as its stripped text plus the limit.
C1_Witness ==
    /\ Done("__query")
    /\ \E i \in 1..Len(call.sql) : call.sql[i] = LC
    /\ \E i \in 1..Len(call.sql) : call.sql[i] = "DROP"
    /\ executed = <<stripComments(call.sql) \o LimitSuffix>>
    /\ resp.kind = "rows"

\* The tables the engine reads when it runs a text.
TablesRead(text) ==
    LET tabs == FromTables(Tokens(text), "other") IN {tabs[i] : i \in 1..Len(tabs)}

ReadsDenied(text) == TablesRead(text) \cap DENIED_TABLES # {}

IsBlocked(r) == r.kind = "error" /\ r.error_code = "QUERY_BLOCKED"

\* C2 (as claimed): every query that reads a deny-listed table is rejected
\* with QUERY_BLOCKED by __query and by __query_batch, and no executed text
\* reads a deny-listed table.
C2_DeniedTableRejected ==
    /\ Done("__query") /\ ReadsDenied(call.sql) => IsBlocked(resp) /\ executed = <<>>
    /\ Done("__query_batch") /\ resp.kind = "batch" =>
           \A i \in 1..Len(call.queries) :
               ReadsDenied(call.queries[i].sql) => IsBlocked(resp.results[i])
    /\ \A i \in 1..Len(executed) : ~ReadsDenied(executed[i])

\* "select * from t -- ; DROP TABLE t" and the same query without its comment.
Q3 == <<"select", SP, STAR, SP, "from", SP, "t", SP, LC, SP, SEMI, SP, "DROP", SP, "TABLE",
        SP, "t">>
Q3NoComment == <<"select", SP, STAR, SP, "from", SP, "t", SP>>
CommentTail == <<SP, LC, SP, SEMI, SP, "DROP", SP, "TABLE", SP, "t">>

EndsWithCommentTail(sql) ==
    /\ Len(sql) >= Len(CommentTail)
    /\ SubSeq(sql, Len(sql) - Len(CommentTail) + 1, Len(sql)) = CommentTail

\* The response, executed texts and yielded rows are those of outcome r.
SameOutcome(r) == resp = r.resp /\ executed = r.executed /\ yielded = r.yielded

\* C3 (as claimed): the query "select * from t -- ; DROP TABLE t" is rejected
\* by the gate.
C3_CommentQueryRejected ==
    Done("__query") /\ call.sql = Q3 => IsBlocked(resp)

\* C3 (amended): "select * from t -- ; DROP TABLE t", called without bind
\* parameters, is accepted and executed as "select * from t LIMIT 501", and
\* every query (under any parameters) that ends in the comment
\* "-- ; DROP TABLE t" gets the response, executed text and rows of the same
\* query with the comment deleted.
C3_CommentIgnored ==
    /\ Done("__query") /\ call.sql = Q3 /\ call.params = <<>> =>
           /\ resp.kind = "rows"
           /\ executed = <<<<"select", SP, STAR, SP, "from", SP, "t">> \o LimitSuffix>>
    /\ Done("__query") /\ EndsWithCommentTail(call.sql) =>
           SameOutcome(QueryHandler(db0, SubSeq(call.sql, 1, Len(call.sql) - Len(CommentTail)),
                                    call.params))

\* C3 witness: the query of the claim has been answered with rows.
C3_Witness == Done("__query") /\ call.sql = Q3 /\ resp.kind = "rows" /\ resp.count = 500

\* "SELECT 1; DROP TABLE x"
Q4 == <<"SELECT", SP, "1", SEMI, SP, "DROP", SP, "TABLE", SP, "x">>

GateErrors == {ErrEmpty, ErrMulti, ErrPrefix, ErrKeyword} \cup {ErrDenied(t) : t \in DENIED_TABLES}

\* C4 (as claimed): a rejection by a step other than the semicolon step
\* carries an error code different from the semicolon step's, which is the
\* code "SELECT 1; DROP TABLE x" is rejected with.
C4_DistinctErrorCodes ==
    Done("__query") /\ resp.kind = "error" /\ resp.error \in GateErrors \ {ErrMulti} =>
        resp.error_code # QueryHandler(db0, Q4, <<>>).resp.error_code

\* C4 (amended): the checks run in the order semicolon, SELECT/WITH prefix,
\* blocked keyword, deny-listed table on the comment-stripped text; the first
\* that fails ends the call with nothing executed, with error_code
\* QUERY_BLOCKED and that step's own error message, the messages of different
\* steps being different; "SELECT 1; DROP TABLE x" gets the multi-statement
\* message.
C4_OrderedChecks ==
    Done("__query") =>
        LET s == stripComments(call.sql)
            semi == \E i \in 1..Len(s) : s[i] = SEMI
            prefix == s # <<>> /\ toLowerCase(s[1]) \in {"select", "with"}
            keyword == \E i \in 1..Len(s) : toLowerCase(s[i]) \in BLOCKED_KEYWORDS
            denied == {n \in DENIED_TABLES :
                          \E i \in 1..Len(extractTableNames(call.sql)) :
                              extractTableNames(call.sql)[i] = n}
            expect == IF s = <<>> THEN {ErrEmpty}
                      ELSE IF semi THEN {ErrMulti}
                      ELSE IF ~prefix THEN {ErrPrefix}
                      ELSE IF keyword THEN {ErrKeyword}
                      ELSE {ErrDenied(n) : n \in denied}
        IN  /\ expect # {} => /\ resp.kind = "error"
                              /\ resp.error_code = "QUERY_BLOCKED"
                              /\ resp.error \in expect
                              /\ executed = <<>>
            /\ expect = {} => executed # <<>> /\ ~IsBlocked(resp)
            /\ call.sql = Q4 => resp.error = ErrMulti
            /\ Cardinality(GateErrors) = 4 + Cardinality(DENIED_TABLES)

\* C4 witness: "SELECT 1; DROP TABLE x", which fails the semicolon step and
\* would fail the keyword step, has been rejected with the multi-statement
\* message.
C4_Witness ==
    /\ Done("__query") /\ call.sql = Q4
    /\ resp = QueryBlocked(ErrMulti)
    /\ HasBlockedKeyword(stripComments(call.sql))

\* A text in which the engine finds a LIMIT clause.
SqlHasLimit(text) == \E i \in 1..Len(Tokens(text)) : IsKw(Tokens(text)[i], "limit")

SelectAllFromT == <<"SELECT", SP, STAR, SP, "FROM", SP, "t">>

\* C5 (as claimed): __query returns at most 500 rows, truncated is true
\* exactly when the executed statement yielded more than 500 rows, a query
\* with no LIMIT clause is executed with " LIMIT 501" appended, one with a
\* LIMIT clause is executed without a second LIMIT, and a query with no
\* LIMIT on the 1000-row table t returns 500 rows with truncated true.
C5_RowCap ==
    Done("__query") =>
        /\ resp.kind = "rows" =>
               /\ CountRows(resp.rows) <= MAX_ROWS
               /\ resp.count = CountRows(resp.rows)
               /\ resp.truncated <=> CountRows(yielded[1].rows) > MAX_ROWS
        /\ executed # <<>> =>
               executed[1] = IF SqlHasLimit(call.sql) THEN stripComments(call.sql)
                             ELSE stripComments(call.sql) \o LimitSuffix
        /\ call.sql = SelectAllFromT /\ CountRows(db0.t) = 1000 =>
               resp.kind = "rows" /\ resp.count = 500 /\ resp.truncated

\* Every array of result rows a response carries.
ResponseRowLists ==
    IF resp.kind = "rows" THEN {resp.rows}
    ELSE IF resp.kind = "batch"
         THEN {resp.results[i].rows :
                 i \in {j \in 1..Len(resp.results) : resp.results[j].kind = "array"}}
    ELSE {}

\* C6 (as claimed): no response of __query or __query_batch carries result
\* rows whose JSON serialization is longer than 1,000,000 characters.
C6_ByteCap ==
    pc = "done" => \A rows \in ResponseRowLists : JsonLenRows(rows) <= MAX_RESULT_BYTES

\* The row lists of the response paired with what the engine yielded for
\* them: <<returned, yielded>>.
ReturnedAndYielded ==
    IF resp.kind = "rows" THEN {<<resp.rows, yielded[1].rows>>}
    ELSE IF resp.kind = "batch"
         THEN LET ran == [i \in 1..Len(resp.results) |->
                             resp.results[i].kind = "array"
                             \/ resp.results[i].error_code = "QUERY_ERROR"]
                  \* the index in yielded of the i-th result
                  at(i) == Cardinality({j \in 1..i : ran[j]})
              IN  {<<resp.results[i].rows, yielded[at(i)].rows>> :
                     i \in {j \in 1..Len(resp.results) : resp.results[j].kind = "array"}}
    ELSE {}

RowRedacted(out, in) ==
    /\ DOMAIN out = DOMAIN in
    /\ \A c \in DOMAIN out :
           out[c] = IF c \in {"credential_hash", "session_token", "identity_email"}
                    THEN Str("[REDACTED]") ELSE in[c]

\* C7: in every row returned by __query or __query_batch a column named
\* credential_hash, session_token or identity_email holds "[REDACTED]" and
\* every other column holds the value the query produced.
C7_Redaction ==
    pc = "done" =>
        \A p \in ReturnedAndYielded :
            /\ Len(p[1]) <= Len(p[2])
            /\ \A i \in 1..Len(p[1]) : RowRedacted(p[1][i].row, p[2][i].row)

\* C7 witness: a returned row has a redacted credential_hash whose value in
\* the engine's row was something else, beside a column that kept its value;
\* reached through an alias, a direct select and a join.
C7_Witness ==
    /\ Done("__query")
    /\ resp.kind = "rows" /\ resp.rows # <<>>
    /\ "credential_hash" \in DOMAIN resp.rows[1].row
    /\ resp.rows[1].row["credential_hash"] = Str("[REDACTED]")
    /\ yielded[1].rows[1].row["credential_hash"] = Str("ann")
    /\ \E i \in 1..Len(call.sql) : call.sql[i] = "AS"

----------------------------------------------------------------------------
(* Staging: the dataset's /query endpoint and the tools that call it       *)

\* RestStagingDO.handleQuery: the posted text goes to sql.exec as it is.  A
\* throw is caught by fetch and answered with success: false.
\* The answer of a /query endpoint; rows is the field "results" of
\* RestStagingDO and "result" of JsonToSqlDO.
EngineAnswer(r) == [success |-> r.ok, rows |-> r.rows, db |-> r.db]

RestStagingDO_handleQuery(d, sqlText) == EngineAnswer(SqlExec(d, sqlText, <<>>))

\* s.split(";").filter(Boolean).length: the non-empty pieces between the
\* semicolons.
SegmentCount(s) ==
    Cardinality({i \in 1..Len(s) : s[i] # SEMI /\ (i = 1 \/ s[i - 1] = SEMI)})

dangerousKeywords ==
    {"DROP", "DELETE", "INSERT", "UPDATE", "ALTER", "CREATE",
     "TRUNCATE", "REPLACE", "EXEC", "EXECUTE", "PRAGMA",
     "ATTACH", "DETACH", "REINDEX", "VACUUM", "ANALYZE"}

\* The dangerous keywords that word.toUpperCase() includes as a substring,
\* for the words the model uses; every other word includes none.
KeywordsIn(word) ==
    CASE toLowerCase(word) = "drop" -> {"DROP"}
      [] toLowerCase(word) = "delete" -> {"DELETE"}
      [] toLowerCase(word) = "insert" -> {"INSERT"}
      [] word = "created_at" -> {"CREATE"}
      [] OTHER -> {}

\* upperSql.includes(keyword) for some dangerous keyword: the keywords are
\* letters only, so a match lies inside one word.
HasDangerousKeyword(s) ==
    \E i \in 1..Len(s) : IsWord(s[i]) /\ KeywordsIn(s[i]) \cap dangerousKeywords # {}

\* sanitizedSql.toLowerCase().includes("limit"), for the words the model uses
IncludesLimit(s) == \E i \in 1..Len(s) : IsWord(s[i]) /\ toLowerCase(s[i]) = "limit"

ToolError(code, msg) == [kind |-> "error", error_code |-> code, error |-> msg]

Refused(d, code, msg) ==
    [resp |-> ToolError(code, msg), executed |-> <<>>, yielded |-> <<>>, db |-> d]

\* What a tool leaves behind once it has posted sqlText to /query.
Posted(sqlText, result, reply) ==
    [resp |-> reply, executed |-> <<sqlText>>,
     yielded |-> <<[ok |-> result.success, rows |-> result.rows]>>, db |-> result.db]

\* queryDataFromDo once /query has answered finalSql with result.
QueryDataResult(finalSql, result) ==
    Posted(finalSql, result,
           IF result.success
           THEN [kind |-> "rows", rows |-> result.rows,
                 row_count |-> CountRows(result.rows), sql |-> finalSql]
           ELSE ToolError("SQL_EXECUTION_ERROR", "Query failed"))

QueryDataPost(d, finalSql) == QueryDataResult(finalSql, RestStagingDO_handleQuery(d, finalSql))

\* queryDataFromDo on the text without its line comments.
QueryDataSanitized(d, sanitizedSql, limit) ==
    IF \E i \in 1..Len(sanitizedSql) : sanitizedSql[i] = BO
    THEN Refused(d, "INVALID_SQL", "C-style /* */ comments are not allowed")
    ELSE IF SegmentCount(sanitizedSql) > 1
    THEN Refused(d, "SQL_EXECUTION_ERROR", "Only single SQL statements are allowed")
    ELSE IF HasDangerousKeyword(sanitizedSql)
    THEN Refused(d, "INVALID_SQL",
                 "SQL command is not allowed. Only SELECT queries are permitted.")
    ELSE IF ~StartsWithSelectOrWith(sanitizedSql)
    THEN Refused(d, "SQL_EXECUTION_ERROR", "Only SELECT/WITH queries are allowed")
    ELSE QueryDataPost(d, IF IncludesLimit(sanitizedSql) THEN sanitizedSql
                          ELSE sanitizedSql \o <<SP, "LIMIT", SP, Numeral(limit)>>)

\* queryDataFromDo: [resp, executed, yielded, db]; executed holds the texts
\* posted to /query.
queryDataFromDo(d, sql, limit) == QueryDataSanitized(d, trim(StripLineComments(sql)), limit)

\* The query_data tool: sql is required, limit is Number(args.limit) || 100.
QueryDataHandler(d, sql, limit) ==
    IF sql = <<>>
    THEN Refused(d, "SQL_EXECUTION_ERROR", "sql is required")
    ELSE queryDataFromDo(d, sql, IF limit = 0 THEN 100 ELSE limit)

\* JsonToSqlDO.handleQuery, the endpoint behind data_manager: an empty text
\* is refused, any other text goes to sql.exec as it is; a throw is answered
\* with success: false.
JsonToSqlDO_handleQuery(d, querySQL) ==
    IF querySQL = <<>> THEN [success |-> FALSE, rows |-> <<>>, db |-> d]
    ELSE EngineAnswer(SqlExec(d, querySQL, <<>>))

\* Math.max(1, limit)
AtLeastOne(limit) == IF limit < 1 THEN 1 ELSE limit

\* DataManagerTool.handleQuery once /query has answered finalQuery.
DataManagerResult(finalQuery, result) ==
    Posted(finalQuery, result,
           IF result.success
           THEN [kind |-> "text", row_count |-> CountRows(result.rows), sql |-> finalQuery]
           ELSE ToolError("DATA_MANAGER", "Query failed"))

DataManagerPost(d, finalQuery) ==
    DataManagerResult(finalQuery, JsonToSqlDO_handleQuery(d, finalQuery))

\* DataManagerTool.handleQuery: only the non-empty pieces between the
\* semicolons of the text without its line comments are counted; the text
\* posted to /query is the trimmed text as the caller gave it.  A throw is
\* caught by the tool's callback and reported as text.
DataManager_handleQuery(d, sqlQuery) ==
    IF sqlQuery = <<>>
    THEN Refused(d, "DATA_MANAGER", "sql parameter is required for query operation")
    ELSE IF SegmentCount(trim(StripLineComments(sqlQuery))) > 1
    THEN Refused(d, "DATA_MANAGER", "Only single SQL statements are allowed")
    ELSE DataManagerPost(d, trim(sqlQuery))

Protein == "protein"

handleCount(d) ==
    DataManager_handleQuery(d,
        <<"SELECT", SP, "COUNT", LP, STAR, RP, SP, "as", SP, "total", SP, "FROM", SP, Protein>>)

handleSample(d, limit) ==
    DataManager_handleQuery(d,
        <<"SELECT", SP, "json_extract", LP, "data", COMMA, SP, SQ, DOLLAR, SQ, RP, SP, "as",
          SP, "obj", SP, "FROM", SP, Protein, SP, "LIMIT", SP, Numeral(AtLeastOne(limit))>>)

handleDistinct(d, path, limit) ==
    IF path = <<>>
    THEN Refused(d, "DATA_MANAGER", "'path' is required for distinct")
    ELSE DataManager_handleQuery(d,
             <<"SELECT", SP, "DISTINCT", SP, "json_extract", LP, "data", COMMA, SP, SQ>>
             \o path
             \o <<SQ, RP, SP, "as", SP, "value", SP, "FROM", SP, Protein, SP, "LIMIT", SP,
                  Numeral(AtLeastOne(limit))>>)

\* The alias of the i-th path of a select: "c" followed by i.
ColumnAlias(i) == CASE i = 1 -> "c1" [] i = 2 -> "c2" [] i = 3 -> "c3"

\* paths.map((p, i) => `json_extract(data, '${p}') as c${i + 1}`).join(", ")
RECURSIVE Selects(_, _)
Selects(paths, i) ==
    IF i > Len(paths) THEN <<>>
    ELSE (IF i > 1 THEN <<COMMA, SP>> ELSE <<>>)
         \o <<"json_extract", LP, "data", COMMA, SP, SQ>> \o paths[i]
         \o <<SQ, RP, SP, "as", SP, ColumnAlias(i)>>
         \o Selects(paths, i + 1)

handleSelect(d, paths, where, limit) ==
    IF paths = <<>>
    THEN Refused(d, "DATA_MANAGER", "'paths' is required for select")
    ELSE DataManager_handleQuery(d,
             <<"SELECT", SP>> \o Selects(paths, 1) \o <<SP, "FROM", SP, Protein>>
             \o (IF where # <<>> THEN <<SP, "WHERE", SP>> \o where ELSE <<>>)
             \o <<SP, "LIMIT", SP, Numeral(AtLeastOne(limit))>>)

\* DataManagerTool.handleExport once /query has answered exportQuery.
ExportResult(format, exportQuery, result) ==
    Posted(exportQuery, result,
           IF ~result.success THEN ToolError("DATA_MANAGER", "Export query failed")
           ELSE IF CountRows(result.rows) = 0 THEN [kind |-> "text", row_count |-> 0]
           ELSE [kind |-> "export", format |-> format, row_count |-> CountRows(result.rows)])

ExportPost(d, format, exportQuery) ==
    ExportResult(format, exportQuery, JsonToSqlDO_handleQuery(d, exportQuery))

\* DataManagerTool.handleExport: "SELECT * FROM " and the table name go to
\* /query with no check.  The export text is built from the rows; a large
\* export is staged under a data access id of its own, not in this dataset.
handleExport(d, format, tableName) ==
    ExportPost(d, format,
               <<"SELECT", SP, STAR, SP, "FROM", SP>>
               \o (IF tableName # <<>> THEN tableName ELSE <<Protein>>))

----------------------------------------------------------------------------
(* The tools' environment: two staged datasets and the calls an agent makes *)

\* A staged dataset: the protein table JsonToSqlDO creates (id, data, type,
\* created_at) and a second table.
StagedDataset ==
    [protein |-> <<[n |-> 1, row |-> [id |-> Num(1), type |-> Str("protein"),
                                      created_at |-> Num(1),
                                      data |-> Doc([accession |-> Str("P1"),
                                                    length |-> Num(100)])]],
                   [n |-> 2, row |-> [id |-> Num(5), type |-> Str("protein"),
                                      created_at |-> Num(1),
                                      data |-> Doc([accession |-> Str("P2"),
                                                    length |-> Num(600)])]]>>,
     xref    |-> <<[n |-> 1, row |-> [id |-> Num(1), source |-> Str("PDB")]]>>]

\* db in this specification: the dataset behind query_data (a RestStagingDO)
\* and the dataset behind data_manager (a JsonToSqlDO).
Datasets0 == [rest |-> StagedDataset, json |-> StagedDataset]

DropProtein == <<"DROP", SP, "TABLE", SP, "protein">>

SqlInputs ==
    { <<>>,
      <<"SELECT", SP, STAR, SP, "FROM", SP, "protein">>,
      <<"SELECT", SP, STAR, SP, "FROM", SP, "protein", SP, "LIMIT", SP, "5">>,
      <<"SELECT", SP, STAR, SP, "FROM", SP, "protein", SEMI>>,
      <<"SELECT", SP, STAR, SP, "FROM", SP, "protein", SP, LC, SP, "c">>,
      <<"SELECT", SP, STAR, SP, "FROM", SP, "nosuch">>,
      <<"SELECT", SP, "created_at", SP, "FROM", SP, "protein">>,
      <<BO, SP, "c", SP, BC, SP, "SELECT", SP, "1">>,
      <<"WITH", SP, "x", SP, "AS", SP, LP, "SELECT", SP, "1", RP, SP,
        "SELECT", SP, STAR, SP, "FROM", SP, "x">>,
      <<"WITH", SP, "x", SP, "AS", SP, LP, "SELECT", SP, "1", RP, SP,
        "DELETE", SP, "FROM", SP, "protein">>,
      DropProtein,
      <<"drop", SP, "table", SP, "xref">>,
      <<"DELETE", SP, "FROM", SP, "protein">>,
      <<"SELECT", SP, "1", SEMI, SP>> \o DropProtein,
      <<"SELECT", SP, SQ, LC, SQ, SEMI, SP>> \o DropProtein }

LimitInputs == {0, 5, 100}

PathInputs ==
    { <<>>,
      <<DOLLAR>>,
      <<DOLLAR, DOT, "accession">>,
      <<DOLLAR, DOT, "missing">>,
      <<"accession">>,
      <<DOLLAR, SQ, RP, SP, "as", SP, "v", COMMA, SP, SQ, LC, SQ, SP, "as", SP, "x", SP,
        "FROM", SP, "protein", SEMI, SP>> \o DropProtein
        \o <<SEMI, SP, "SELECT", SP, "json_extract", LP, "data", COMMA, SP, SQ, DOLLAR>> }

PathsInputs ==
    {<<>>} \cup {<<p>> : p \in PathInputs \ {<<>>}}
        \cup {<<<<DOLLAR, DOT, "accession">>, <<DOLLAR, DOT, "length">>>>}

WhereInputs ==
    { <<>>,
      <<"id", SP, EQ, SP, "1">>,
      <<"id", SP, EQ, SP, SQ, "x", SQ>>,
      <<SQ, LC, SQ, SP, EQ, SP, SQ, LC, SQ, SEMI, SP>> \o DropProtein
        \o <<SEMI, SP, "SELECT", SP, "1">> }

TableInputs ==
    { <<>>, <<"protein">>, <<"xref">>, <<"nosuch">>,
      <<"protein", SEMI, SP>> \o DropProtein }

Formats == {"json", "csv", "tsv"}

InitTools ==
    /\ pc = "idle"
    /\ db = Datasets0
    /\ db0 = Datasets0
    /\ call = NoCall
    /\ resp = NoResp
    /\ executed = <<>>
    /\ yielded = <<>>
    /\ log = <<>>

\* An agent calls query_data.
CallQueryData ==
    /\ pc = "idle"
    /\ \E sql \in SqlInputs, limit \in LimitInputs :
           call' = [tool |-> "query_data", sql |-> sql, limit |-> limit]
    /\ pc' = "pending"
    /\ UNCHANGED <<db, db0, resp, executed, yielded, log>>

\* An agent calls data_manager with one of its SQL operations.
CallDataManager ==
    /\ pc = "idle"
    /\ \/ \E sql \in SqlInputs :
              call' = [tool |-> "data_manager", operation |-> "query", sql |-> sql]
       \/ call' = [tool |-> "data_manager", operation |-> "count"]
       \/ \E limit \in LimitInputs :
              call' = [tool |-> "data_manager", operation |-> "sample", limit |-> limit]
       \/ \E path \in PathInputs, limit \in LimitInputs :
              call' = [tool |-> "data_manager", operation |-> "distinct", path |-> path,
                       limit |-> limit]
       \/ \E paths \in PathsInputs, where \in WhereInputs, limit \in LimitInputs :
              call' = [tool |-> "data_manager", operation |-> "select", paths |-> paths,
                       where |-> where, limit |-> limit]
       \/ \E format \in Formats, table \in TableInputs :
              call' = [tool |-> "data_manager", operation |-> "export",
                       export_format |-> format, table_name |-> table]
    /\ pc' = "pending"
    /\ UNCHANGED <<db, db0, resp, executed, yielded, log>>

\* A handler has run against dataset which: its response, the texts it
\* posted to /query and what they gave, and the dataset it leaves.
Served(which, r) ==
    /\ resp' = r.resp
    /\ executed' = r.executed
    /\ yielded' = r.yielded
    /\ db' = [db EXCEPT ![which] = r.db]
    /\ pc' = "done"
    /\ UNCHANGED <<db0, call, log>>

Pending(tool, operation) ==
    /\ pc = "pending"
    /\ call.tool = tool
    /\ tool = "data_manager" => call.operation = operation

QueryData ==
    /\ Pending("query_data", "")
    /\ Served("rest", QueryDataHandler(db.rest, call.sql, call.limit))

DataManagerQuery ==
    /\ Pending("data_manager", "query")
    /\ Served("json", DataManager_handleQuery(db.json, call.sql))

DataManagerCount ==
    /\ Pending("data_manager", "count")
    /\ Served("json", handleCount(db.json))

DataManagerSample ==
    /\ Pending("data_manager", "sample")
    /\ Served("json", handleSample(db.json, call.limit))

DataManagerDistinct ==
    /\ Pending("data_manager", "distinct")
    /\ Served("json", handleDistinct(db.json, call.path, call.limit))

DataManagerSelect ==
    /\ Pending("data_manager", "select")
    /\ Served("json", handleSelect(db.json, call.paths, call.where, call.limit))

DataManagerExport ==
    /\ Pending("data_manager", "export")
    /\ Served("json", handleExport(db.json, call.export_format, call.table_name))

NextTools ==
    \/ CallQueryData \/ CallDataManager
    \/ QueryData \/ DataManagerQuery \/ DataManagerCount \/ DataManagerSample
    \/ DataManagerDistinct \/ DataManagerSelect \/ DataManagerExport
    \/ Return

SpecTools == InitTools /\ [][NextTools]_vars

----------------------------------------------------------------------------
(* Claims about the tools (SpecTools)                                      *)

\* The data_manager operations that forward SQL built from agent input.
ForwardingOperations == {"query", "select", "distinct", "sample", "export"}

ToolServed ==
    /\ pc = "done"
    /\ \/ call.tool = "query_data"
       \/ call.tool = "data_manager" /\ call.operation \in ForwardingOperations

\* C8 (as claimed): every SQL text that query_data or data_manager's query, select,
\* distinct, sample and export operations post to a dataset's /query endpoint
\* is one read-only SELECT / WITH statement, and no such call changes a
\* dataset.
C8_ForwardedReadOnly ==
    ToolServed => /\ \A i \in 1..Len(executed) : IsSingleRead(executed[i])
                  /\ db = db0

----------------------------------------------------------------------------
(* chunking.ts: ChunkingEngine                                             *)
(*                                                                         *)
(* A content string is a sequence of runs [n, u]: n UTF-16 code units u.   *)
(* A unit is a character of the basic plane ("a", "b", "c", "FFFD"), a     *)
(* high surrogate HI or a low surrogate LO; HI followed by LO is one       *)
(* character outside the basic plane.  Strings are kept canonical: no      *)
(* empty run, no two adjacent runs of the same unit.                       *)

CHUNK_SIZE_THRESHOLD == 32768
CHUNK_SIZE == 16384

HI == "HI"
LO == "LO"
FFFD == "FFFD"

Run(n, u) == [n |-> n, u |-> u]

\* content.length
RECURSIVE Length(_)
Length(s) == IF s = <<>> THEN 0 ELSE s[1].n + Length(Tail(s))

\* Run g in front of the canonical string r.
Cons(g, r) ==
    IF g.n = 0 THEN r
    ELSE IF r # <<>> /\ r[1].u = g.u THEN <<Run(g.n + r[1].n, g.u)>> \o Tail(r)
    ELSE <<g>> \o r

\* The canonical form of a sequence of runs.
RECURSIVE Canon(_)
Canon(s) == IF s = <<>> THEN <<>> ELSE Cons(s[1], Canon(Tail(s)))

\* The first k units of s, and s without them.
RECURSIVE Take(_, _)
Take(s, k) ==
    IF k <= 0 \/ s = <<>> THEN <<>>
    ELSE IF s[1].n >= k THEN <<Run(k, s[1].u)>>
    ELSE <<s[1]>> \o Take(Tail(s), k - s[1].n)

RECURSIVE Drop(_, _)
Drop(s, k) ==
    IF s = <<>> \/ k <= 0 THEN s
    ELSE IF s[1].n > k THEN <<Run(s[1].n - k, s[1].u)>> \o Tail(s)
    ELSE Drop(Tail(s), k - s[1].n)

\* content.slice(i, j) for 0 <= i <= j
slice(s, i, j) == Take(Drop(s, i), j - i)

shouldChunk(content) == Length(content) > CHUNK_SIZE_THRESHOLD

\* The loop of splitIntoChunks from index i on.
RECURSIVE ChunksFrom(_, _)
ChunksFrom(content, i) ==
    IF i >= Length(content) THEN <<>>
    ELSE <<slice(content, i, i + CHUNK_SIZE)>> \o ChunksFrom(content, i + CHUNK_SIZE)

splitIntoChunks(content) == ChunksFrom(content, 0)

\* A string bound to a TEXT column is stored as UTF-8 and read back from
\* UTF-8.  A surrogate pair is one four-byte character and comes back as it
\* was; a surrogate with no partner has no UTF-8 encoding and comes back as
\* k replacement characters U+FFFD (one for the surrogate, or one for each
\* byte written for it).
RECURSIVE Utf8RoundTrip(_, _)
Utf8RoundTrip(s, k) ==
    IF s = <<>> THEN <<>>
    ELSE IF s[1].u = HI /\ Len(s) >= 2 /\ s[2].u = LO
    THEN <<Run((s[1].n - 1) * k, FFFD), Run(1, HI), Run(1, LO), Run((s[2].n - 1) * k, FFFD)>>
         \o Utf8RoundTrip(SubSeq(s, 3, Len(s)), k)
    ELSE IF s[1].u \in {HI, LO} THEN <<Run(s[1].n * k, FFFD)>> \o Utf8RoundTrip(Tail(s), k)
    ELSE <<s[1]>> \o Utf8RoundTrip(Tail(s), k)

AsText(s, k) == Canon(Utf8RoundTrip(s, k))

\* The dataset of the chunk store: the rows of content_chunks and the
\* content ids of chunk_metadata.
NoChunks == [content_chunks |-> {}, chunk_metadata |-> {}]

HasChunk(d, contentId, i) ==
    \E r \in d.content_chunks : r.content_id = contentId /\ r.chunk_index = i

\* The INSERT loop of storeChunkedContent from part i on: [ok, db].
\* UNIQUE(content_id, chunk_index) makes the INSERT of an existing pair
\* throw, with the earlier INSERTs done.
RECURSIVE InsertChunks(_, _, _, _, _)
InsertChunks(d, contentId, parts, i, k) ==
    IF i >= Len(parts) THEN [ok |-> TRUE, db |-> d]
    ELSE IF HasChunk(d, contentId, i) THEN [ok |-> FALSE, db |-> d]
    ELSE InsertChunks([d EXCEPT !.content_chunks =
                          @ \cup {[content_id |-> contentId, chunk_index |-> i,
                                   chunk_data |-> AsText(parts[i + 1], k),
                                   chunk_size |-> Length(parts[i + 1])]}],
                      contentId, parts, i + 1, k)

Throws(d) == [resp |-> [kind |-> "throw"], db |-> d]

\* The INSERT into chunk_metadata, whose primary key is content_id, and
\* the return of the metadata.
InsertMetadata(inserted, contentId, content, contentType) ==
    IF ~inserted.ok \/ contentId \in inserted.db.chunk_metadata THEN Throws(inserted.db)
    ELSE [resp |-> [kind |-> "meta", contentId |-> contentId,
                    totalChunks |-> Len(splitIntoChunks(content)),
                    originalSize |-> Length(content), contentType |-> contentType,
                    compressed |-> FALSE],
          db |-> [inserted.db EXCEPT !.chunk_metadata = @ \cup {contentId}]]

\* storeChunkedContent, contentId being what generateContentId returned:
\* [resp, db].
storeChunkedContent(d, content, contentType, contentId, k) ==
    InsertMetadata(InsertChunks(d, contentId, splitIntoChunks(content), 0, k),
                   contentId, content, contentType)

\* rows.map(r => String(r.chunk_data)).join("") over the rows in
\* chunk_index order, from index i on.
RECURSIVE JoinFrom(_, _)
JoinFrom(rows, I) ==
    IF I = {} THEN <<>>
    ELSE (CHOOSE r \in rows : r.chunk_index = Min(I)).chunk_data \o JoinFrom(rows, I \ {Min(I)})

JoinRows(rows) == Canon(JoinFrom(rows, {r.chunk_index : r \in rows}))

\* retrieveChunkedContent: the content, or null.
retrieveChunkedContent(d, contentId) ==
    IF \A r \in d.content_chunks : r.content_id # contentId THEN Null
    ELSE JoinRows({r \in d.content_chunks : r.content_id = contentId})

----------------------------------------------------------------------------
(* The chunk store's environment                                           *)

\* The ids generateContentId can return (crypto.randomUUID).
ContentIds == {"chunk_1", "chunk_2"}

\* The characters written for a surrogate that has no partner.
ReplacementCounts == {1, 3}

\* A surrogate pair sits astride the end of the first chunk.
ContentPairAstride ==
    <<Run(CHUNK_SIZE - 1, "a"), Run(1, HI), Run(1, LO), Run(CHUNK_SIZE, "a")>>

Contents ==
    { <<>>,
      <<Run(5, "a")>>,
      <<Run(CHUNK_SIZE_THRESHOLD, "a")>>,
      <<Run(CHUNK_SIZE_THRESHOLD + 1, "a")>>,
      <<Run(CHUNK_SIZE, "a"), Run(CHUNK_SIZE, "b"), Run(1, "c")>>,
      <<Run(10, "a"), Run(1, HI), Run(1, LO), Run(CHUNK_SIZE_THRESHOLD, "b")>>,
      <<Run(11 * CHUNK_SIZE, "a"), Run(1, "b")>>,
      ContentPairAstride }

InitChunk ==
    /\ pc = "idle"
    /\ db = NoChunks
    /\ db0 = NoChunks
    /\ call = NoCall
    /\ resp = NoResp
    /\ executed = <<>>
    /\ yielded = <<>>
    /\ log = <<>>

CallStoreChunked ==
    /\ pc = "idle"
    /\ \E content \in Contents, contentType \in {"json", "text"} :
           call' = [tool |-> "storeChunkedContent", content |-> content,
                    contentType |-> contentType]
    /\ pc' = "pending"
    /\ UNCHANGED <<db, db0, resp, executed, yielded, log>>

CallRetrieveChunked ==
    /\ pc = "idle"
    /\ \E contentId \in ContentIds :
           call' = [tool |-> "retrieveChunkedContent", contentId |-> contentId]
    /\ pc' = "pending"
    /\ UNCHANGED <<db, db0, resp, executed, yielded, log>>

\* The store has answered r: a returned id is remembered with its content.
StoredChunked(r) ==
    /\ resp' = r.resp
    /\ db' = r.db
    /\ log' = IF r.resp.kind = "meta"
              THEN (r.resp.contentId :> call.content) @@ log
              ELSE log

StoreChunked ==
    /\ pc = "pending"
    /\ call.tool = "storeChunkedContent"
    /\ \E contentId \in ContentIds, k \in ReplacementCounts :
           StoredChunked(storeChunkedContent(db, call.content, call.contentType, contentId, k))
    /\ pc' = "done"
    /\ UNCHANGED <<db0, call, executed, yielded>>

RetrieveChunked ==
    /\ pc = "pending"
    /\ call.tool = "retrieveChunkedContent"
    /\ resp' = [kind |-> "content", value |-> retrieveChunkedContent(db, call.contentId)]
    /\ pc' = "done"
    /\ UNCHANGED <<db, db0, call, executed, yielded, log>>

NextChunk == CallStoreChunked \/ CallRetrieveChunked \/ StoreChunked \/ RetrieveChunked \/ Return

SpecChunk == InitChunk /\ [][NextChunk]_vars

----------------------------------------------------------------------------
(* Claims about the chunk store (SpecChunk)                                *)

\* C9 (as claimed): for every string s longer than 32768 characters that
\* storeChunkedContent stored under a content id, retrieveChunkedContent of
\* that id returns exactly s, whatever else was stored before or after it.
C9_RoundTrip ==
    /\ pc = "done" /\ call.tool = "retrieveChunkedContent"
    /\ call.contentId \in DOMAIN log
    /\ shouldChunk(log[call.contentId])
    => resp.value = log[call.contentId]

----------------------------------------------------------------------------
(* store.ts: the __store tool                                              *)
(*                                                                         *)
(* The data of a call is a run-length encoded list of rows, as above; a    *)
(* row is a function from keys to values, or Null for an element that is   *)
(* not an object.  The dataset is a function from lower-case table names   *)
(* (SQLite matches table and column names without regard to case) to       *)
(* tables [name, columns, rows], columns being a sequence of [name, type]. *)

Store_MAX_ROWS == 5000
MAX_COLUMNS == 200
INSERT_BATCH_SIZE == 500
BLOCKED_TABLE_PREFIXES == {"sqlite_", "_cf_"}

Bool(b) == [bool |-> b]
Real(t) == [real |-> t]
Nested(t) == [nested |-> t]

\* The names of the model that have more than 64 characters, that
\* IDENTIFIER_RE does not match, and the reserved prefix a name starts with.
LongName == "a_table_name_of_more_than_64_characters"
NotIdentifiers == {"", "bad name", "bad key"}
PrefixOf(lower) ==
    CASE lower \in {"sqlite_x", "sqlite_master"} -> "sqlite_"
      [] lower = "_cf_kv" -> "_cf_"
      [] OTHER -> ""

NoError == [kind |-> "none"]
ValidationError(code, msg, hint) ==
    [kind |-> "error", error_code |-> code, error |-> msg, hint |-> hint]

\* data that is not an array, and Array.isArray.
NotAnArray == <<[notArray |-> TRUE]>>
IsArray(data) == \A i \in 1..Len(data) : "notArray" \notin DOMAIN data[i]

validateTableName(table) ==
    IF table = "" THEN ValidationError("INVALID_TABLE_NAME", "Table name is required",
                                     "Provide a non-empty string as the table name.")
    ELSE IF table = LongName
    THEN ValidationError("INVALID_TABLE_NAME", "Table name exceeds 64 characters",
                         "Use a shorter table name (max 64 characters).")
    ELSE IF table \in NotIdentifiers
    THEN ValidationError("INVALID_TABLE_NAME", "Invalid table name",
                         "Table names must start with a letter or underscore")
    ELSE IF PrefixOf(toLowerCase(table)) \in BLOCKED_TABLE_PREFIXES
    THEN ValidationError("INVALID_TABLE_NAME", "Table name uses reserved prefix",
                         "Choose a table name that doesn't start with the prefix.")
    ELSE IF toLowerCase(table) \in DENIED_TABLES
    THEN ValidationError("INVALID_TABLE_NAME", "Access denied to table",
                         "This is a system table and cannot be written to.")
    ELSE NoError

validateData(data) ==
    IF ~IsArray(data)
    THEN ValidationError("INVALID_DATA", "Data must be an array of objects",
                         "Pass an array of plain objects")
    ELSE IF data = <<>>
    THEN ValidationError("INVALID_DATA", "Data array is empty", "Provide at least one row.")
    ELSE IF CountRows(data) > Store_MAX_ROWS
    THEN ValidationError("TOO_MANY_ROWS", "Too many rows",
                         "Split data into batches of 5000 rows or fewer.")
    ELSE IF \E i \in 1..Len(data) : data[i].row = Null
    THEN ValidationError("INVALID_DATA", "Row is not a plain object",
                         "Every element in the data array must be a plain object")
    ELSE NoError

\* The keys of all rows.
AllKeys(data) == UNION {DOMAIN data[i].row : i \in 1..Len(data)}

IsNested(v) == "nested" \in DOMAIN v

validateColumnsAndValues(data) ==
    IF AllKeys(data) = {}
    THEN ValidationError("NO_COLUMNS", "No columns found",
                         "Each row must have at least one key")
    ELSE IF Cardinality(AllKeys(data)) > MAX_COLUMNS
    THEN ValidationError("TOO_MANY_COLUMNS", "Too many columns",
                         "Reduce the number of unique keys across all rows")
    ELSE IF AllKeys(data) \cap NotIdentifiers # {}
    THEN ValidationError("INVALID_COLUMN_NAME", "Invalid column name",
                         "Column names must start with a letter or underscore")
    ELSE IF \E i \in 1..Len(data) : \E key \in DOMAIN data[i].row : IsNested(data[i].row[key])
    THEN ValidationError("NESTED_VALUES", "Found nested objects/arrays",
                         "Options: JSON.stringify() the nested values, flatten, or a separate table")
    ELSE NoError

\* inferSqliteType; "" is null (no type).
inferSqliteType(value) ==
    IF value = Null THEN ""
    ELSE IF "bool" \in DOMAIN value \/ "num" \in DOMAIN value THEN "INTEGER"
    ELSE IF "real" \in DOMAIN value THEN "REAL"
    ELSE "TEXT"

\* row[key]; a missing key reads undefined, which is handled as null is.
Field(row, key) == IF key \in DOMAIN row THEN row[key] ELSE Null

\* The types inferred for the values of a key that are not null.
TypesOf(data, key) ==
    {inferSqliteType(Field(data[i].row, key)) : i \in 1..Len(data)} \ {""}

\* One type stays, several are promoted to TEXT, none defaults to TEXT.
InferredType(types) == IF Cardinality(types) = 1 THEN CHOOSE t \in types : TRUE ELSE "TEXT"

\* The keys of the model in the order of Array.prototype.sort.
KeyOrder == <<"A", "B", "a", "b", "c">>

SortedKeys(keys) ==
    LET In(k) == k \in keys
    IN  SelectSeq(KeyOrder, In)

ColumnTypesOf(data, keys) ==
    [i \in 1..Len(keys) |-> [name |-> keys[i], type |-> InferredType(TypesOf(data, keys[i]))]]

inferColumnTypes(data) == ColumnTypesOf(data, SortedKeys(AllKeys(data)))

Names(columns) == [i \in 1..Len(columns) |-> columns[i].name]

ColumnNames(tbl) == {tbl.columns[i].name : i \in 1..Len(tbl.columns)}

LowerNames(columns) == {toLowerCase(columns[i].name) : i \in 1..Len(columns)}

\* PRAGMA table_info("table"): no row for a table that does not exist.
getExistingColumns(d, table) ==
    IF toLowerCase(table) \in DOMAIN d THEN d[toLowerCase(table)].columns ELSE <<>>

\* CREATE TABLE IF NOT EXISTS: [ok, db].  Two columns whose names differ
\* in case only are a duplicate column name.
createTable(d, table, columns) ==
    IF toLowerCase(table) \in DOMAIN d THEN [ok |-> TRUE, db |-> d]
    ELSE IF Cardinality(LowerNames(columns)) # Len(columns) THEN [ok |-> FALSE, db |-> d]
    ELSE [ok |-> TRUE,
          db |-> (toLowerCase(table) :> [name |-> table, columns |-> columns, rows |-> <<>>])
                 @@ d]

\* An ALTER TABLE that also gives the first column the type of the new one.
AddColumn_retype(tbl, column) ==
    [name |-> tbl.name,
     columns |-> Append([tbl.columns EXCEPT ![1].type = column.type], column),
     rows |-> [i \in 1..Len(tbl.rows) |->
                  [n |-> tbl.rows[i].n, row |-> (column.name :> Null) @@ tbl.rows[i].row]]]

\* ALTER TABLE ... ADD COLUMN: the column is NULL in the rows there are.
AddColumn(tbl, column) ==
    [name |-> tbl.name,
     columns |-> Append(tbl.columns, column),
     rows |-> [i \in 1..Len(tbl.rows) |->
                  [n |-> tbl.rows[i].n, row |-> (column.name :> Null) @@ tbl.rows[i].row]]]

\* addColumns: [ok, db]; a duplicate column name throws with the earlier
\* columns added.
RECURSIVE addColumns(_, _, _)
addColumns(d, table, newColumns) ==
    IF newColumns = <<>> THEN [ok |-> TRUE, db |-> d]
    ELSE IF toLowerCase(newColumns[1].name) \in LowerNames(d[toLowerCase(table)].columns)
    THEN [ok |-> FALSE, db |-> d]
    ELSE addColumns([d EXCEPT ![toLowerCase(table)] = AddColumn(@, newColumns[1])],
                    table, Tail(newColumns))

\* The columns of columnTypes whose name existingNames does not have.
NewColumns(columnTypes, existing) ==
    LET IsNew(c) == \A i \in 1..Len(existing) : existing[i].name # c.name
    IN  SelectSeq(columnTypes, IsNew)

\* The parameter pushed for a value: null for null and undefined, 1 / 0 for
\* a boolean.
Param(value) ==
    IF "bool" \in DOMAIN value THEN Num(IF value.bool THEN 1 ELSE 0) ELSE value

\* A number stored in a column of TEXT affinity becomes its text.
Affinity(type, value) ==
    IF type = "TEXT" /\ "num" \in DOMAIN value THEN Str(Numeral(value.num))
    ELSE IF type = "TEXT" /\ "real" \in DOMAIN value THEN Str(value.real)
    ELSE value

\* The row an INSERT (columns) VALUES (...) makes of a row of the data: a
\* column the INSERT does not name is NULL.
InsertedRow(tbl, columns, row) ==
    [c \in ColumnNames(tbl) |->
        IF \E i \in 1..Len(columns) : toLowerCase(columns[i]) = toLowerCase(c)
        THEN Affinity((CHOOSE col \in {tbl.columns[j] : j \in 1..Len(tbl.columns)} :
                           col.name = c).type,
                      Param(Field(row, CHOOSE k \in {columns[i] : i \in 1..Len(columns)} :
                                           toLowerCase(k) = toLowerCase(c))))
        ELSE Null]

AppendRows(tbl, columns, groups) ==
    [tbl EXCEPT !.rows = @ \o [i \in 1..Len(groups) |->
                                  [n |-> groups[i].n,
                                   row |-> InsertedRow(tbl, columns, groups[i].row)]]]

\* data.slice(offset)
RECURSIVE RowsFrom(_, _)
RowsFrom(rows, k) ==
    IF rows = <<>> \/ k <= 0 THEN rows
    ELSE IF rows[1].n > k THEN <<[n |-> rows[1].n - k, row |-> rows[1].row]>> \o Tail(rows)
    ELSE RowsFrom(Tail(rows), k - rows[1].n)

\* The loop of batchInsert from offset on: [ok, db].  Each batch is one
\* INSERT with one "?" per value, so executeSql's count of "?" agrees with
\* its parameters.  The engine throws on batch number failAt (0: never),
\* with the earlier batches inserted.
RECURSIVE InsertFrom(_, _, _, _, _, _)
InsertFrom(d, table, columns, data, offset, failAt) ==
    IF offset >= CountRows(data) THEN [ok |-> TRUE, db |-> d]
    ELSE IF \/ offset = (failAt - 1) * INSERT_BATCH_SIZE
            \/ \E i \in 1..Len(columns) :
                   toLowerCase(columns[i]) \notin LowerNames(d[toLowerCase(table)].columns)
    THEN [ok |-> FALSE, db |-> d]
    ELSE InsertFrom([d EXCEPT ![toLowerCase(table)] =
                        AppendRows(@, columns,
                                   Slice0(RowsFrom(data, offset), INSERT_BATCH_SIZE))],
                    table, columns, data, offset + INSERT_BATCH_SIZE, failAt)

batchInsert(d, table, columns, data, failAt) == InsertFrom(d, table, columns, data, 0, failAt)

StoreError(d) ==
    [resp |-> [kind |-> "error", error_code |-> "STORE_ERROR", error |-> "engine error"],
     db |-> d]

ResultBase(table, data, columns) ==
    [kind |-> "stored", table |-> table, rows_inserted |-> CountRows(data),
     columns |-> columns]

\* The summary of a call: created and columns_added are set only when
\* there is something to report.
Summary_always(table, data, columns, created, columnsAdded) ==
    ResultBase(table, data, columns)
    @@ (IF created THEN [created |-> TRUE] ELSE <<>>)
    @@ [columns_added |-> columnsAdded]

Summary(table, data, columns, created, columnsAdded) ==
    ResultBase(table, data, columns)
    @@ (IF created THEN [created |-> TRUE] ELSE <<>>)
    @@ (IF columnsAdded # <<>> THEN [columns_added |-> columnsAdded] ELSE <<>>)

\* Steps 6 and 7, inserted being what batchInsert gave.
StoreSummary(inserted, table, data, columns, created, columnsAdded) ==
    IF ~inserted.ok THEN StoreError(inserted.db)
    ELSE [resp |-> Summary(table, data, columns, created, columnsAdded), db |-> inserted.db]

\* Step 6 after the schema step, which gave schema.
StoreInsert(schema, table, data, columns, created, columnsAdded, failAt) ==
    IF ~schema.ok THEN StoreError(schema.db)
    ELSE StoreSummary(batchInsert(schema.db, table, columns, data, failAt),
                      table, data, columns, created, columnsAdded)

StoreEvolve(d, table, data, columnTypes, newColumns, failAt) ==
    StoreInsert(addColumns(d, table, newColumns), table, data, Names(columnTypes), FALSE,
                Names(newColumns), failAt)

\* Step 5: the table is created, or the columns it lacks are added.
StoreSchema(d, table, data, columnTypes, existing, failAt) ==
    IF existing = <<>>
    THEN StoreInsert(createTable(d, table, columnTypes), table, data, Names(columnTypes),
                     TRUE, <<>>, failAt)
    ELSE StoreEvolve(d, table, data, columnTypes, NewColumns(columnTypes, existing), failAt)

\* A validation error returned after the dataset was emptied.
Invalid_reset(d, err) == [resp |-> err, db |-> <<>>]

\* A validation error is returned before the dataset is touched.
Invalid(d, err) == [resp |-> err, db |-> d]

\* The __store handler: [resp, db].
StoreHandler(d, table, data, failAt) ==
    IF validateTableName(table) # NoError THEN Invalid(d, validateTableName(table))
    ELSE IF validateData(data) # NoError THEN Invalid(d, validateData(data))
    ELSE IF validateColumnsAndValues(data) # NoError
    THEN Invalid(d, validateColumnsAndValues(data))
    ELSE StoreSchema(d, table, data, inferColumnTypes(data), getExistingColumns(d, table),
                     failAt)

----------------------------------------------------------------------------
(* The __store tool's environment                                          *)

\* The bounds of the model.
MaxStores == 3    \* the calls that reach the storage primitive
ManyRows == 501   \* the rows of the long data array

NoTables == <<>>

D_a1 == <<[n |-> 1, row |-> [a |-> Num(1)]]>>
D_a2b == <<[n |-> 1, row |-> [a |-> Num(2), b |-> Str("x")]]>>
D_bc == <<[n |-> 1, row |-> [b |-> Bool(TRUE)]], [n |-> 1, row |-> [c |-> Null]]>>
D_int_real == <<[n |-> 1, row |-> [a |-> Num(1)]], [n |-> 1, row |-> [a |-> Real("2.5")]]>>
D_then_scalar == <<[n |-> 1, row |-> [a |-> Num(1)]], [n |-> 1, row |-> Null]>>
D_then_nested == <<[n |-> 1, row |-> [a |-> Num(1)]], [n |-> 1, row |-> [a |-> Nested("object")]]>>

DataInputs ==
    { D_a1,
      D_a2b,
      <<[n |-> 1, row |-> [A |-> Num(5)]]>>,
      D_bc,
      D_int_real,
      D_then_scalar,
      D_then_nested,
      NotAnArray,
      <<[n |-> ManyRows, row |-> [a |-> Num(1)]]>>,
      <<>>,
      <<[n |-> 1, row |-> EmptyRow]>>,
      <<[n |-> 1, row |-> Null]>>,
      <<[n |-> 1, row |-> ("bad key" :> Num(1))]>>,
      <<[n |-> 1, row |-> [a |-> Nested("object")]]>>,
      <<[n |-> Store_MAX_ROWS + 1, row |-> [a |-> Num(1)]]>> }

TableNames == {"t", "T", "", "bad name", LongName, "sqlite_x", "_cf_kv"}

\* The batch on which the storage primitive throws (0: none).
FailAts == {0, 2}

\* What the history holds for a table no call has reached.
NoEntry == [keys |-> {}, n |-> 0, dirty |-> FALSE, prev |-> {}, born |-> <<>>]

InitStore ==
    /\ pc = "idle"
    /\ db = NoTables
    /\ db0 = NoTables
    /\ call = NoCall
    /\ resp = NoResp
    /\ executed = <<>>
    /\ yielded = <<>>
    /\ log = [calls |-> 0, tables |-> <<>>]

CallStore ==
    /\ pc = "idle"
    /\ log.calls < MaxStores
    /\ \E table \in TableNames, data \in DataInputs :
           call' = [tool |-> "__store", table |-> table, data |-> data]
    /\ pc' = "pending"
    /\ UNCHANGED <<db, db0, resp, executed, yielded, log>>

ColumnsIn(d, t) == IF t \in DOMAIN d THEN ColumnNames(d[t]) ELSE {}
GroupsIn(d, t) == IF t \in DOMAIN d THEN Len(d[t].rows) ELSE 0

\* The history of table t after a call that reached the storage primitive
\* and gave r: the keys and the number of the successful calls, whether a
\* call has failed (dirty), the columns before the call (prev), and for
\* each group of rows of the table the columns the table had when the
\* group was inserted (born).
Entry(r, t, old) ==
    [keys  |-> IF r.resp.kind = "stored" THEN old.keys \cup AllKeys(call.data) ELSE old.keys,
     n     |-> IF r.resp.kind = "stored" THEN old.n + 1 ELSE old.n,
     dirty |-> old.dirty \/ r.resp.kind # "stored",
     prev  |-> ColumnsIn(db, t),
     born  |-> old.born \o [i \in 1..(GroupsIn(r.db, t) - GroupsIn(db, t)) |->
                               ColumnsIn(r.db, t)]]

Logged(r, t) ==
    IF r.resp.kind = "error" /\ r.resp.error_code # "STORE_ERROR" THEN log
    ELSE [calls |-> log.calls + 1,
          tables |-> (t :> Entry(r, t, IF t \in DOMAIN log.tables THEN log.tables[t]
                                       ELSE NoEntry))
                     @@ log.tables]

Stored(r) ==
    /\ resp' = r.resp
    /\ db' = r.db
    /\ log' = Logged(r, toLowerCase(call.table))

\* The __store handler.
Store ==
    /\ pc = "pending"
    /\ call.tool = "__store"
    /\ \E failAt \in FailAts : Stored(StoreHandler(db, call.table, call.data, failAt))
    /\ pc' = "done"
    /\ UNCHANGED <<db0, call, executed, yielded>>

NextStore == CallStore \/ Store \/ Return

SpecStore == InitStore /\ [][NextStore]_vars

----------------------------------------------------------------------------
(* Claims about the __store tool (SpecStore)                               *)

Range(seq) == {seq[i] : i \in 1..Len(seq)}

\* The call just answered is a successful store into table t.
JustStored(t) ==
    /\ pc = "done" /\ call.tool = "__store" /\ resp.kind = "stored"
    /\ toLowerCase(call.table) = t

\* C10: for a table t that only successful store calls have reached, t's
\* columns are the union of the keys of all rows stored; the first call
\* reports created: true and no later call does; each later call reports
\* in columns_added exactly the keys that were not columns of t, and has no
\* columns_added when there are none; a row reads null in every column
\* added after it was inserted; and store("t", [{a:1}]) followed by
\* store("t", [{a:2, b:"x"}]) leaves columns {a, b}, reports
\* columns_added ["b"], and the first row's b is null.
C10_SchemaEvolution ==
    \A t \in DOMAIN log.tables :
        ~log.tables[t].dirty /\ log.tables[t].n >= 1 =>
            /\ t \in DOMAIN db
            /\ ColumnNames(db[t]) = log.tables[t].keys
            /\ Len(log.tables[t].born) = Len(db[t].rows)
            /\ \A i \in 1..Len(db[t].rows) :
                   \A c \in ColumnNames(db[t]) \ log.tables[t].born[i] :
                       db[t].rows[i].row[c] = Null
            /\ JustStored(t) =>
                   /\ "created" \in DOMAIN resp <=> log.tables[t].n = 1
                   /\ "created" \in DOMAIN resp => resp.created = TRUE
                   /\ IF log.tables[t].n = 1 \/ AllKeys(call.data) \subseteq log.tables[t].prev
                      THEN "columns_added" \notin DOMAIN resp
                      ELSE /\ "columns_added" \in DOMAIN resp
                           /\ Range(resp.columns_added)
                                  = AllKeys(call.data) \ log.tables[t].prev
                           /\ Len(resp.columns_added) = Cardinality(Range(resp.columns_added))
            /\ /\ JustStored(t) /\ call.data = D_a2b
               /\ log.tables[t].n = 2 /\ log.tables[t].prev = {"a"}
               /\ db[t].rows[1].row["a"] = Num(1)
               => /\ ColumnNames(db[t]) = {"a", "b"}
                  /\ resp.columns_added = <<"b">>
                  /\ db[t].rows[1].row["b"] = Null

\* C10 witness: store("t", [{a:1}]) and then store("t", [{a:2, b:"x"}]) have
\* been answered, the second with columns_added ["b"], and the first row's b
\* is null beside the second row's "x".
C10_Witness ==
    /\ JustStored("t") /\ call.table = "t" /\ call.data = D_a2b
    /\ ~log.tables["t"].dirty /\ log.tables["t"].n = 2
    /\ resp.columns_added = <<"b">>
    /\ db["t"].rows = <<[n |-> 1, row |-> [a |-> Num(1), b |-> Null]],
                        [n |-> 1, row |-> [a |-> Num(2), b |-> Str("x")]]>>

\* The columns of cs are still there in ds, in their places and with their
\* names and types.
KeepsColumns(cs, ds) ==
    /\ Len(ds) >= Len(cs)
    /\ \A i \in 1..Len(cs) : ds[i] = cs[i]

\* The type columnTypes gives to the column called name ("": none).
TypeIn(columnTypes, name) ==
    IF \E i \in 1..Len(columnTypes) : columnTypes[i].name = name
    THEN (CHOOSE c \in Range(columnTypes) : c.name = name).type
    ELSE ""

\* C11: across any sequence of store calls, successful or failing, no table
\* and no column of the dataset is ever removed, and the declared type of a
\* column never changes after the column is created: a later call whose
\* rows give an existing column another inferred type adds no column of
\* that name.
C11_AdditiveOnly ==
    [][/\ \A t \in DOMAIN db :
              /\ t \in DOMAIN db'
              /\ KeepsColumns(db[t].columns, db'[t].columns)
       /\ pc' = "done" /\ resp'.kind = "stored" /\ "columns_added" \in DOMAIN resp'
              => Range(resp'.columns_added) \cap ColumnsIn(db, toLowerCase(call.table)) = {}
      ]_vars

\* C11 witness: a store call has succeeded whose rows make b an INTEGER
\* while the table's b, created by an earlier call, is still TEXT.
C11_Witness ==
    /\ JustStored("t") /\ call.data = D_bc
    /\ TypeIn(inferColumnTypes(call.data), "b") = "INTEGER"
    /\ TypeIn(db["t"].columns, "b") = "TEXT"
    /\ resp.columns_added = <<"c">>

\* The codes of the validation errors.
ValidationCodes ==
    {"INVALID_TABLE_NAME", "INVALID_DATA", "TOO_MANY_ROWS", "NO_COLUMNS", "TOO_MANY_COLUMNS",
     "INVALID_COLUMN_NAME", "NESTED_VALUES"}

\* C12: a store call that returns a validation error leaves the dataset as
\* it was (no table created, no column added, no row inserted, not even
\* the rows before the offending one), and its result carries an
\* error_code and a hint that is not empty.
C12_ValidationErrorAtomic ==
    [][pc = "pending" /\ pc' = "done" /\ call.tool = "__store"
       /\ resp'.kind = "error" /\ resp'.error_code # "STORE_ERROR"
       => /\ db' = db
          /\ resp'.error_code \in ValidationCodes
          /\ "hint" \in DOMAIN resp' /\ resp'.hint # ""
      ]_vars

\* C12 witness: a call whose second row holds a nested value has been
\* refused, on a dataset that holds a table with rows.
C12_Witness ==
    /\ pc = "done" /\ call.tool = "__store" /\ call.table = "t"
    /\ call.data = D_then_nested
    /\ resp.kind = "error" /\ resp.error_code = "NESTED_VALUES"
    /\ "t" \in DOMAIN db /\ db["t"].rows = <<[n |-> 1, row |-> [a |-> Num(1)]]>>

\* The values of the rows of data under key that are not null.
ValuesOf(data, key) == {Field(data[i].row, key) : i \in 1..Len(data)} \ {Null}

IsInt(v) == "bool" \in DOMAIN v \/ "num" \in DOMAIN v
IsNumber(v) == "num" \in DOMAIN v \/ "real" \in DOMAIN v

Reverse(seq) == [i \in 1..Len(seq) |-> seq[Len(seq) + 1 - i]]

\* types gives the values vs the type the rule of the claim gives them.
TypeAsClaimed(type, vs) ==
    /\ vs = {} => type = "TEXT"
    /\ vs # {} /\ (\A v \in vs : IsInt(v)) => type = "INTEGER"
    /\ (\A v \in vs : IsNumber(v)) /\ (\E v \in vs : "real" \in DOMAIN v) => type = "REAL"
    /\ (\E v \in vs : IsNumber(v)) /\ (\E v \in vs : IsText(v)) => type = "TEXT"

\* C18: for each column store infers INTEGER when its non-null values are
\* all booleans or integers, REAL when they are numbers of which at least
\* one is not an integer (as in [1, 2.5]), TEXT when values of different
\* kinds are mixed, and TEXT when all values are null; the type does not
\* depend on the order of the rows; and the columns reported are the keys
\* of the rows in alphabetical order.
C18_StoreTypeInference ==
    \A t \in DOMAIN db :
        JustStored(t) /\ "created" \in DOMAIN resp =>
            /\ \A i \in 1..Len(db[t].columns) :
                   TypeAsClaimed(db[t].columns[i].type,
                                 ValuesOf(call.data, db[t].columns[i].name))
            /\ inferColumnTypes(Reverse(call.data)) = db[t].columns
            /\ resp.columns = SortedKeys(AllKeys(call.data))

----------------------------------------------------------------------------
(* schema-inference: detectArrays, flattenObject, inferColumnType,         *)
(* inferSchema                                                             *)
(*                                                                         *)
(* A JSON value is Null, a number, a boolean or a text as above, an object *)
(* [obj]: the sequence of its entries [k, v] in the order of               *)
(* Object.entries, or an array [arr]: its elements, run-length encoded as  *)
(* groups [n, row].  No key of the model is an integer index, so the order *)
(* of Object.entries is the order of insertion.  Reading a key an object   *)
(* does not have gives undefined, which every test of the code treats as   *)
(* it treats null; both are Null here.                                     *)

KNOWN_ARRAY_KEYS == <<"data", "results", "items", "records", "hits", "entries", "rows">>
MAX_SCAN_ROWS == 100
LARGE_VALUE_THRESHOLD == 4096

Obj(entries) == [obj |-> entries]
Arr(groups) == [arr |-> groups]
KV(key, value) == [k |-> key, v |-> value]
IsObj(v) == "obj" \in DOMAIN v
IsArr(v) == "arr" \in DOMAIN v

Keys(entries) == {entries[i].k : i \in 1..Len(entries)}

\* obj[key]
Get(entries, key) ==
    IF key \in Keys(entries) THEN (CHOOSE e \in Range(entries) : e.k = key).v ELSE Null

Found(key, rows) == [key |-> key, rows |-> rows]

\* The loop over KNOWN_ARRAY_KEYS: every known key whose value is an array.
FoundAt(entries, keys) ==
    [i \in 1..Len(keys) |-> Found(keys[i], Get(entries, keys[i]).arr)]

KnownFound(entries) ==
    LET HoldsArray(key) == IsArr(Get(entries, key))
    IN  FoundAt(entries, SelectSeq(KNOWN_ARRAY_KEYS, HoldsArray))

\* The loop over Object.entries: every property that is a non-empty array.
FoundIn(some) == [i \in 1..Len(some) |-> Found(some[i].k, some[i].v.arr)]

OtherFound(entries) ==
    LET NonEmptyArray(e) == IsArr(e.v) /\ e.v.arr # <<>>
    IN  FoundIn(SelectSeq(entries, NonEmptyArray))

detectArrays(data) ==
    IF IsArr(data) THEN <<Found("data", data.arr)>>
    ELSE IF ~IsObj(data) THEN <<>>
    ELSE IF KnownFound(data.obj) # <<>> THEN KnownFound(data.obj)
    ELSE OtherFound(data.obj)

\* result[key] = value: a key the object has keeps its place.
Put(result, key, value) ==
    IF key \in Keys(result)
    THEN [i \in 1..Len(result) |-> IF result[i].k = key THEN KV(key, value) ELSE result[i]]
    ELSE Append(result, KV(key, value))

\* Object.assign(result, source)
RECURSIVE Assign(_, _)
Assign(result, source) ==
    IF source = <<>> THEN result
    ELSE Assign(Put(result, source[1].k, source[1].v), Tail(source))

FullKey(prefix, key) == IF prefix = "" THEN key ELSE prefix \o "_" \o key

\* depthOverrides?.[key] ?? maxDepth
EffectiveMaxDepth(depthOverrides, key, maxDepth) ==
    IF key \in DOMAIN depthOverrides THEN depthOverrides[key] ELSE maxDepth

RECURSIVE FlattenEntries(_, _, _, _, _, _)

flattenObject(entries, maxDepth, depthOverrides, prefix, currentDepth) ==
    FlattenEntries(entries, <<>>, maxDepth, depthOverrides, prefix, currentDepth)

\* One turn of the loop of flattenObject.
FlattenEntry(e, result, maxDepth, depthOverrides, prefix, currentDepth) ==
    IF IsObj(e.v) /\ currentDepth < EffectiveMaxDepth(depthOverrides, e.k, maxDepth)
    THEN Assign(result, flattenObject(e.v.obj, maxDepth, depthOverrides,
                                      FullKey(prefix, e.k), currentDepth + 1))
    ELSE Put(result, FullKey(prefix, e.k), e.v)

FlattenEntries(entries, result, maxDepth, depthOverrides, prefix, currentDepth) ==
    IF entries = <<>> THEN result
    ELSE FlattenEntries(Tail(entries),
                        FlattenEntry(entries[1], result, maxDepth, depthOverrides, prefix,
                                     currentDepth),
                        maxDepth, depthOverrides, prefix, currentDepth)

\* The flags of inferColumnType.
HasInteger(values) ==
    \E i \in 1..Len(values) : "num" \in DOMAIN values[i] \/ "bool" \in DOMAIN values[i]
HasReal(values) == \E i \in 1..Len(values) : "real" \in DOMAIN values[i]
HasObject(values) == \E i \in 1..Len(values) : IsObj(values[i]) \/ IsArr(values[i])
HasLargeString(values) ==
    \E i \in 1..Len(values) :
        IsText(values[i]) /\ Len(values[i].text) * values[i].rep > LARGE_VALUE_THRESHOLD

\* A column is typed by its first value alone.
inferColumnType_first(values) ==
    IF values = <<>> THEN "TEXT"
    ELSE IF HasObject(<<values[1]>>) \/ HasLargeString(<<values[1]>>) THEN "JSON"
    ELSE IF HasReal(<<values[1]>>) THEN "REAL"
    ELSE IF HasInteger(<<values[1]>>) THEN "INTEGER"
    ELSE "TEXT"

inferColumnType(values) ==
    IF HasObject(values) \/ HasLargeString(values) THEN "JSON"
    ELSE IF HasReal(values) THEN "REAL"
    ELSE IF HasInteger(values) /\ ~HasReal(values) THEN "INTEGER"
    ELSE "TEXT"

\* replace(/[^a-zA-Z0-9_]/g, "_") and replace(/^_+|_+$/g, "") on the keys
\* of the model; a key of letters, digits and inner underscores only is
\* left as it is.
NonWordReplaced == ("my-results-" :> "my_results_") @@ ("-" :> "_")
UnderscoresTrimmed == ("my_results_" :> "my_results") @@ ("_" :> "")

sanitizeTableName(key) ==
    toLowerCase(Lookup(UnderscoresTrimmed, Lookup(NonWordReplaced, key)))

\* ID_PATTERN.test on the column names of the model.
IdNames == {"id", "user_id", "userId", "meta_id"}
ID_PATTERN(name) == name \in IdNames

\* Hints with nothing set.  tableName is <<>> or <<name>>; columnTypes and
\* flatten are functions of the keys they set.
NoHints ==
    [tableName |-> <<>>, columnTypes |-> <<>>, indexes |-> <<>>, flatten |-> <<>>,
     exclude |-> {}]

\* rows.slice(0, MAX_SCAN_ROWS), kept whole.
sampleRows_all(rows) == rows

sampleRows(rows) == Slice0(rows, MAX_SCAN_ROWS)

\* A sample row flattened.
FlatRow(row, flatten) ==
    IF IsObj(row) THEN flattenObject(row.obj, 2, flatten, "", 0) ELSE <<KV("value", row)>>

\* columnValues, a sequence of [name, values] in the order the columns were
\* first seen, after value val was pushed n times for column col.
PushValue(columnValues, col, val, n) ==
    IF \E i \in 1..Len(columnValues) : columnValues[i].name = col
    THEN [i \in 1..Len(columnValues) |->
             IF columnValues[i].name = col
             THEN [name |-> col, values |-> columnValues[i].values \o [j \in 1..n |-> val]]
             ELSE columnValues[i]]
    ELSE Append(columnValues, [name |-> col, values |-> [j \in 1..n |-> val]])

\* The entries of n equal flattened rows.
RECURSIVE CollectEntries(_, _, _, _)
CollectEntries(columnValues, entries, n, exclude) ==
    IF entries = <<>> THEN columnValues
    ELSE IF entries[1].k \in exclude
    THEN CollectEntries(columnValues, Tail(entries), n, exclude)
    ELSE CollectEntries(PushValue(columnValues, entries[1].k, entries[1].v, n),
                        Tail(entries), n, exclude)

RECURSIVE CollectRows(_, _, _, _)
CollectRows(columnValues, groups, flatten, exclude) ==
    IF groups = <<>> THEN columnValues
    ELSE CollectRows(CollectEntries(columnValues, FlatRow(groups[1].row, flatten),
                                    groups[1].n, exclude),
                     Tail(groups), flatten, exclude)

\* overrideType ? overrideType : inferColumnType(values)
ColumnType(columnTypes, colName, values) ==
    IF colName \in DOMAIN columnTypes /\ columnTypes[colName] # ""
    THEN columnTypes[colName]
    ELSE inferColumnType(values)

BuildColumns(columnValues, columnTypes) ==
    [i \in 1..Len(columnValues) |->
        [name |-> columnValues[i].name,
         type |-> ColumnType(columnTypes, columnValues[i].name, columnValues[i].values)]]

\* The hinted indexes, then every id column that is not among them yet.
RECURSIVE AutoIndex(_, _)
AutoIndex(indexes, columns) ==
    IF columns = <<>> THEN indexes
    ELSE IF ID_PATTERN(columns[1].name) /\ columns[1].name \notin Range(indexes)
    THEN AutoIndex(Append(indexes, columns[1].name), Tail(columns))
    ELSE AutoIndex(indexes, Tail(columns))

InferredTable(tableName, columns, indexes) ==
    [name |-> tableName, columns |-> columns, indexes |-> AutoIndex(indexes, columns)]

TableName(hints, key) ==
    IF hints.tableName # <<>> THEN hints.tableName[1] ELSE sanitizeTableName(key)

\* One turn of the loop of inferSchema, for an array that has rows.
InferTable(found, hints) ==
    InferredTable(TableName(hints, found.key),
                  BuildColumns(CollectRows(<<>>, sampleRows(found.rows), hints.flatten,
                                           hints.exclude),
                               hints.columnTypes),
                  hints.indexes)

RECURSIVE InferTables(_, _)
InferTables(arrays, hints) ==
    IF arrays = <<>> THEN <<>>
    ELSE IF arrays[1].rows = <<>> THEN InferTables(Tail(arrays), hints)
    ELSE <<InferTable(arrays[1], hints)>> \o InferTables(Tail(arrays), hints)

inferSchema(arrays, hints) == [tables |-> InferTables(arrays, hints)]

----------------------------------------------------------------------------
(* The inference engine's environment                                      *)

\* The bound of the model.
MaxValues == 3   \* the values sampled for a column

G(n, row) == [n |-> n, row |-> row]

LargeString == [text |-> "x", rep |-> LARGE_VALUE_THRESHOLD + 1]
LongestSmallString == [text |-> "x", rep |-> LARGE_VALUE_THRESHOLD]

SampledValues ==
    { Null, Num(1), Bool(TRUE), Real("2.5"), Str("abc"), LargeString, LongestSmallString,
      Obj(<<KV("a", Num(1))>>), Arr(<<G(1, Num(1))>>) }

ValueLists == UNION {[1..n -> SampledValues] : n \in 0..MaxValues}

R_x == Obj(<<KV("id", Num(1)), KV("name", Str("x"))>>)
R_y == Obj(<<KV("id", Num(2)), KV("name", Str("y"))>>)
R_extra == Obj(<<KV("name", Str("z")), KV("score", Real("2.5"))>>)
R_nested ==
    Obj(<<KV("name", Str("n")),
          KV("meta", Obj(<<KV("id", Num(7)),
                           KV("deep", Obj(<<KV("er", Obj(<<KV("x", Num(1))>>))>>))>>))>>)

ArraysInputs ==
    { <<Found("results", <<G(1, R_x), G(1, R_y)>>)>>,
      <<Found("results", <<G(MAX_SCAN_ROWS, R_x)>>)>>,
      <<Found("results", <<G(MAX_SCAN_ROWS, R_x), G(1, R_extra)>>)>>,
      <<Found("results", <<G(MAX_SCAN_ROWS, R_x), G(3, R_y), G(1, R_nested)>>)>>,
      <<Found("results", <<G(MAX_SCAN_ROWS - 1, R_x), G(1, R_extra), G(5, R_nested)>>)>>,
      <<Found("results", <<G(MAX_SCAN_ROWS - 1, R_x), G(1, R_extra), G(2, R_y)>>)>>,
      <<Found("data", <<>>), Found("my-results-", <<G(1, R_nested), G(1, Num(5))>>)>>,
      <<Found("items", <<G(1, R_extra), G(1, R_x)>>), Found("rows", <<G(2, Str("s"))>>)>>,
      <<>> }

HintsInputs ==
    { NoHints,
      [NoHints EXCEPT !.tableName = <<"things">>],
      [NoHints EXCEPT !.exclude = {"name"}],
      [NoHints EXCEPT !.columnTypes = ("id" :> "TEXT")],
      [NoHints EXCEPT !.indexes = <<"name">>],
      [NoHints EXCEPT !.flatten = ("meta" :> 0)] }

Doc_results == Obj(<<KV("results", Arr(<<G(1, R_x), G(1, R_y)>>))>>)

DetectInputs ==
    { Doc_results,
      Arr(<<G(1, R_x)>>),
      Arr(<<>>),
      Num(5),
      Null,
      Obj(<<>>),
      Obj(<<KV("data", Arr(<<>>)), KV("proteins", Arr(<<G(1, R_x)>>))>>),
      Obj(<<KV("proteins", Arr(<<G(1, R_x)>>)), KV("empty", Arr(<<>>)),
            KV("note", Str("n")), KV("genes", Arr(<<G(2, R_y)>>))>>),
      Obj(<<KV("warnings", Arr(<<G(1, Str("w"))>>)), KV("rows", Arr(<<G(1, R_x)>>)),
            KV("data", Arr(<<G(1, R_y)>>))>>),
      Obj(<<KV("results", Arr(<<>>)), KV("items", Arr(<<G(1, R_x)>>))>>),
      Obj(<<KV("results", Str("none")), KV("hits", Arr(<<G(1, R_x)>>)),
            KV("entries", Arr(<<G(1, R_y)>>)), KV("records", Null)>>) }

InitInfer ==
    /\ pc = "idle"
    /\ db = <<>>
    /\ db0 = <<>>
    /\ call = NoCall
    /\ resp = NoResp
    /\ executed = <<>>
    /\ yielded = <<>>
    /\ log = <<>>

Called(c) ==
    /\ pc = "idle"
    /\ call' = c
    /\ pc' = "pending"
    /\ UNCHANGED <<db, db0, resp, executed, yielded, log>>

CallDetectArrays == \E data \in DetectInputs : Called([tool |-> "detectArrays", data |-> data])

CallInferColumnType ==
    \E values \in ValueLists : Called([tool |-> "inferColumnType", values |-> values])

CallInferSchema ==
    \E arrays \in ArraysInputs, hints \in HintsInputs :
        Called([tool |-> "inferSchema", arrays |-> arrays, hints |-> hints])

\* A function of the engine has returned r.
Inferred(tool, r) ==
    /\ pc = "pending"
    /\ call.tool = tool
    /\ resp' = r
    /\ pc' = "done"
    /\ UNCHANGED <<db, db0, call, executed, yielded, log>>

DetectArrays ==
    /\ call.tool = "detectArrays"
    /\ Inferred("detectArrays", [kind |-> "arrays", value |-> detectArrays(call.data)])

InferColumnType ==
    /\ call.tool = "inferColumnType"
    /\ Inferred("inferColumnType", [kind |-> "type", value |-> inferColumnType(call.values)])

InferSchema ==
    /\ call.tool = "inferSchema"
    /\ Inferred("inferSchema",
                [kind |-> "schema", value |-> inferSchema(call.arrays, call.hints)])

NextInfer ==
    \/ CallDetectArrays \/ CallInferColumnType \/ CallInferSchema
    \/ DetectArrays \/ InferColumnType \/ InferSchema
    \/ Return

SpecInfer == InitInfer /\ [][NextInfer]_vars

----------------------------------------------------------------------------
(* Claims about the inference engine (SpecInfer)                           *)

IsLarge(v) == IsText(v) /\ Len(v.text) * v.rep > 4096

\* The type the rule of C16 gives to values vs.
PromotedType(vs) ==
    IF \E v \in vs : IsObj(v) \/ IsArr(v) \/ IsLarge(v) THEN "JSON"
    ELSE IF \E v \in vs : "real" \in DOMAIN v THEN "REAL"
    ELSE IF \E v \in vs : "num" \in DOMAIN v \/ "bool" \in DOMAIN v THEN "INTEGER"
    ELSE "TEXT"

\* The orderings of a sequence.
Orderings(seq) ==
    {[i \in 1..Len(seq) |-> seq[f[i]]] :
        f \in {g \in [1..Len(seq) -> 1..Len(seq)] : \A i, j \in 1..Len(seq) : i # j => g[i] # g[j]}}

\* C16: a column's inferred type is JSON if any sampled value is a non-null
\* object or array or a string longer than 4096 characters, else REAL if
\* any value is a non-integer number, else INTEGER if any value is an
\* integer or a boolean, else TEXT; [1, 2.5] gives REAL, [1, true] INTEGER,
\* [1, {"a":1}] JSON, [null, null] TEXT; and every ordering of the values
\* gives the same type.
C16_TypePromotion ==
    pc = "done" /\ call.tool = "inferColumnType" =>
        /\ resp.value = PromotedType(Range(call.values))
        /\ \A other \in Orderings(call.values) : inferColumnType(other) = resp.value
        /\ call.values = <<Num(1), Real("2.5")>> => resp.value = "REAL"
        /\ call.values = <<Num(1), Bool(TRUE)>> => resp.value = "INTEGER"
        /\ call.values = <<Num(1), Obj(<<KV("a", Num(1))>>)>> => resp.value = "JSON"
        /\ call.values = <<Null, Null>> => resp.value = "TEXT"

\* C16 witness: inferColumnType has answered REAL for [1, 2.5].
C16_Witness ==
    /\ pc = "done" /\ call.tool = "inferColumnType"
    /\ call.values = <<Num(1), Real("2.5")>>
    /\ resp.value = "REAL"

\* The arrays cut to the rows that are sampled.
Sampled(arrays) ==
    [i \in 1..Len(arrays) |-> Found(arrays[i].key, Slice0(arrays[i].rows, 100))]

\* C17: the schema inferSchema gives depends on the first 100 rows of each
\* row-set and on the hints only: it is the schema of the input cut to its
\* first 100 rows, and every input that agrees with this one on the first
\* 100 rows of each row-set, whatever its later rows, gets the same table
\* names, columns, types and indexes.  (inferSchema reads no clock, no
\* random source and no state, and a Map iterates in insertion order: two
\* runs on one input go through the same steps.)
C17_SchemaOfSample ==
    pc = "done" /\ call.tool = "inferSchema" =>
        /\ resp.value = inferSchema(Sampled(call.arrays), call.hints)
        /\ \A other \in ArraysInputs :
               Sampled(other) = Sampled(call.arrays)
                   => inferSchema(other, call.hints) = resp.value

\* C17 witness: a schema was inferred from a row-set of more than 100 rows
\* whose rows after the hundredth have a column the first hundred lack.
C17_Witness ==
    /\ pc = "done" /\ call.tool = "inferSchema"
    /\ call.arrays = <<Found("results", <<G(100, R_x), G(1, R_extra)>>)>>
    /\ call.hints = NoHints
    /\ resp.value.tables = <<[name |-> "results",
                              columns |-> <<[name |-> "id", type |-> "INTEGER"],
                                            [name |-> "name", type |-> "TEXT"]>>,
                              indexes |-> <<"id">>]>>

HoldsRows(entries, key) == IsArr(Get(entries, key)) /\ Get(entries, key).arr # <<>>

\* What C19 says detectArrays gives for an object.
DetectedAsClaimed(entries) ==
    LET Known(key) == HoldsRows(entries, key)
        Other(e) == IsArr(e.v) /\ e.v.arr # <<>>
    IN  IF SelectSeq(KNOWN_ARRAY_KEYS, Known) # <<>>
        THEN FoundAt(entries, SelectSeq(KNOWN_ARRAY_KEYS, Known))
        ELSE FoundIn(SelectSeq(entries, Other))

\* C19: on an object that is not an array detectArrays collects, in the
\* order data, results, items, records, hits, entries, rows, every
\* well-known key that holds a non-empty array, and falls back to the other
\* top-level arrays only if no well-known key holds a non-empty array: so
\* {"data": [], "proteins": [..]} gives the proteins row-set.
C19_DetectArrays ==
    pc = "done" /\ call.tool = "detectArrays" /\ IsObj(call.data) =>
        resp.value = DetectedAsClaimed(call.data.obj)

----------------------------------------------------------------------------
(* schema-inference: materializeSchema                                     *)
(*                                                                         *)
(* The dataset of a RestStagingDO is [tables, chunks].  tables maps a      *)
(* lower-case table name to [name, columns, indexes, rows, seq]: columns   *)
(* is the sequence of [name, type], the first being the id INTEGER PRIMARY *)
(* KEY AUTOINCREMENT of the DDL; indexes the names of the table's indexes; *)
(* rows a sequence of groups [n, row, first], n equal rows whose ids are   *)
(* first .. first + n - 1; seq the largest id the table has used.  chunks  *)
(* is the set of [content_id, size, total_chunks] of chunk_metadata, each  *)
(* with content, the JSON value whose text was chunked, and rows, the      *)
(* number of its rows in content_chunks.                                   *)

NoStaged == [tables |-> <<>>, chunks |-> {}]

Ok(d) == [ok |-> TRUE, db |-> d]
Thrown(d) == [ok |-> FALSE, db |-> d]

\* id INTEGER PRIMARY KEY AUTOINCREMENT, followed by colDefs
ColumnDefs(table) == <<[name |-> "id", type |-> "INTEGER"]>> \o table.columns

\* CREATE TABLE IF NOT EXISTS: nothing is done, and nothing is checked, for
\* a table there is; an empty list of colDefs leaves "AUTOINCREMENT, )", a
\* syntax error; a column that is called as another one is, the id of the
\* DDL included and whatever the case, is a duplicate column name.
ExecCreateTable(d, table) ==
    IF toLowerCase(table.name) \in DOMAIN d.tables THEN Ok(d)
    ELSE IF table.columns = <<>> THEN Thrown(d)
    ELSE IF Cardinality(LowerNames(ColumnDefs(table))) # Len(ColumnDefs(table))
    THEN Thrown(d)
    ELSE Ok([d EXCEPT !.tables =
                (toLowerCase(table.name) :>
                    [name |-> table.name, columns |-> ColumnDefs(table), indexes |-> {},
                     rows |-> <<>>, seq |-> 0]) @@ @])

IndexName(tableName, idx) == "idx_" \o tableName \o "_" \o idx

AllIndexes(d) == UNION {d.tables[t].indexes : t \in DOMAIN d.tables}

\* CREATE INDEX IF NOT EXISTS: nothing is done for an index name there is;
\* a column the table lacks is an error.
ExecCreateIndex(d, tableName, idx) ==
    IF IndexName(tableName, idx) \in AllIndexes(d) THEN Ok(d)
    ELSE IF toLowerCase(idx) \notin LowerNames(d.tables[toLowerCase(tableName)].columns)
    THEN Thrown(d)
    ELSE Ok([d EXCEPT !.tables[toLowerCase(tableName)].indexes =
                @ \cup {IndexName(tableName, idx)}])

RECURSIVE CreateIndexes(_, _, _)
CreateIndexes(r, tableName, indexes) ==
    IF ~r.ok \/ indexes = <<>> THEN r
    ELSE CreateIndexes(ExecCreateIndex(r.db, tableName, indexes[1]), tableName,
                       Tail(indexes))

\* JSON.stringify of an object or an array, as a text value.
JsonText(v) == [json |-> v]

\* The value bound for column col of a flattened row.
BoundValue(flat, col) ==
    IF IsObj(Get(flat, col)) \/ IsArr(Get(flat, col)) THEN JsonText(Get(flat, col))
    ELSE Get(flat, col)

\* The column of colNames that names column c of the table.
Binds(colNames, c) == {k \in Range(colNames) : toLowerCase(k) = toLowerCase(c)}

\* The value the INSERT gives the table's id (Null: none, the table makes
\* one).
ExplicitId(colNames, flat) ==
    IF Binds(colNames, "id") = {} THEN Null
    ELSE BoundValue(flat, CHOOSE k \in Binds(colNames, "id") : TRUE)

UsedIds(tbl) ==
    UNION {tbl.rows[i].first .. (tbl.rows[i].first + tbl.rows[i].n - 1) :
               i \in 1..Len(tbl.rows)}

\* The row the INSERT stores, without its id.
StagedRow(tbl, colNames, flat) ==
    [c \in ColumnNames(tbl) \ {"id"} |->
        IF Binds(colNames, c) = {} THEN Null
        ELSE Affinity((CHOOSE col \in Range(tbl.columns) : col.name = c).type,
                      BoundValue(flat, CHOOSE k \in Binds(colNames, c) : TRUE))]

Inserted(tbl, n, row, first) ==
    [tbl EXCEPT !.rows = Append(@, [n |-> n, row |-> row, first |-> first]),
                !.seq = IF first + n - 1 > @ THEN first + n - 1 ELSE @]

\* INSERTs counted whether they succeeded or not.
InsertGroup_counted(tbl, colNames, n, flat, id) ==
    IF \E i \in 1..Len(colNames) : toLowerCase(colNames[i]) \notin LowerNames(tbl.columns)
    THEN [tbl |-> tbl, count |-> n]
    ELSE IF id = Null
    THEN [tbl |-> Inserted(tbl, n, StagedRow(tbl, colNames, flat), tbl.seq + 1),
          count |-> n]
    ELSE IF "num" \in DOMAIN id /\ id.num \notin UsedIds(tbl)
    THEN [tbl |-> Inserted(tbl, 1, StagedRow(tbl, colNames, flat), id.num), count |-> n]
    ELSE [tbl |-> tbl, count |-> n]

\* The INSERTs of n equal rows: [tbl, count], count being how many
\* succeeded.  An INSERT that names a column the table lacks fails.  With
\* no id given each row gets the next id.  An id given must be an integer
\* (datatype mismatch otherwise) that no row of the table has (UNIQUE
\* constraint otherwise), so at most the first of equal rows is stored.
InsertGroup(tbl, colNames, n, flat, id) ==
    IF \E i \in 1..Len(colNames) : toLowerCase(colNames[i]) \notin LowerNames(tbl.columns)
    THEN [tbl |-> tbl, count |-> 0]
    ELSE IF id = Null
    THEN [tbl |-> Inserted(tbl, n, StagedRow(tbl, colNames, flat), tbl.seq + 1),
          count |-> n]
    ELSE IF "num" \in DOMAIN id /\ id.num \notin UsedIds(tbl)
    THEN [tbl |-> Inserted(tbl, 1, StagedRow(tbl, colNames, flat), id.num), count |-> 1]
    ELSE [tbl |-> tbl, count |-> 0]

\* flattenObject(row, 2), or { value: row }
FlatForInsert(row) == FlatRow(row, <<>>)

\* The loop over tableRows: try { INSERT; totalRows++ } catch { }.
Counted(count, r) == [tbl |-> r.tbl, count |-> count + r.count]

InsertFlat(r, colNames, n, flat) ==
    Counted(r.count, InsertGroup(r.tbl, colNames, n, flat, ExplicitId(colNames, flat)))

RECURSIVE InsertRows(_, _, _)
InsertRows(r, colNames, groups) ==
    IF groups = <<>> THEN r
    ELSE InsertRows(InsertFlat(r, colNames, groups[1].n, FlatForInsert(groups[1].row)),
                    colNames, Tail(groups))

\* rows.get(table.name) ?? []
RowsFor(rowsMap, name) == IF name \in DOMAIN rowsMap THEN rowsMap[name] ELSE <<>>

\* A table of the schema after its rows were inserted into tbl.
TableFilled(d, table, inserted) ==
    [ok |-> TRUE,
     db |-> [d EXCEPT !.tables[toLowerCase(table.name)] = inserted.tbl],
     count |-> inserted.count]

\* One turn of the loop over schema.tables, indexed being what the CREATE
\* TABLE and the CREATE INDEXes gave: [ok, db, count].
TableInserted(indexed, table, tableRows) ==
    IF ~indexed.ok THEN [ok |-> FALSE, db |-> indexed.db, count |-> 0]
    ELSE TableFilled(indexed.db, table,
                     InsertRows([tbl |-> indexed.db.tables[toLowerCase(table.name)],
                                 count |-> 0],
                                Names(table.columns), tableRows))

MaterializeTable(d, table, rows) ==
    TableInserted(CreateIndexes(ExecCreateTable(d, table), table.name, table.indexes),
                  table, RowsFor(rows, table.name))

RECURSIVE MaterializeFrom(_, _, _, _, _)

\* What follows a turn of the loop that gave r.
MaterializeNext(r, tables, rows, tablesCreated, totalRows) ==
    IF ~r.ok THEN [ok |-> FALSE, db |-> r.db, tablesCreated |-> tablesCreated,
                   totalRows |-> totalRows]
    ELSE MaterializeFrom(r.db, Tail(tables), rows, Append(tablesCreated, tables[1].name),
                         totalRows + r.count)

MaterializeFrom(d, tables, rows, tablesCreated, totalRows) ==
    IF tables = <<>>
    THEN [ok |-> TRUE, db |-> d, tablesCreated |-> tablesCreated, totalRows |-> totalRows]
    ELSE MaterializeNext(MaterializeTable(d, tables[1], rows), tables, rows, tablesCreated,
                         totalRows)

\* materializeSchema: [ok, db, tablesCreated, totalRows]; ok is FALSE when
\* a statement outside the try threw, with what was done before it kept.
materializeSchema(schema, rows, d) == MaterializeFrom(d, schema.tables, rows, <<>>, 0)

----------------------------------------------------------------------------
(* quick-start.js: RestStagingDO                                           *)

\* JSON.stringify(value).length
RECURSIVE JsonLength(_)
RECURSIVE JsonLengthEntries(_)
RECURSIVE JsonLengthGroups(_)
JsonLengthEntries(entries) ==
    IF entries = <<>> THEN 0
    ELSE Len(entries[1].k) + 3 + JsonLength(entries[1].v)
         + (IF Len(entries) > 1 THEN 1 ELSE 0) + JsonLengthEntries(Tail(entries))
JsonLengthGroups(groups) ==
    IF groups = <<>> THEN 0
    ELSE groups[1].n * (JsonLength(groups[1].row) + 1) + JsonLengthGroups(Tail(groups))
JsonLength(v) ==
    IF v = Null THEN 4
    ELSE IF "bool" \in DOMAIN v THEN (IF v.bool THEN 4 ELSE 5)
    ELSE IF "num" \in DOMAIN v THEN DigitCount(v.num)
    ELSE IF "real" \in DOMAIN v THEN Len(v.real)
    ELSE IF IsText(v) THEN Len(v.text) * v.rep + 2
    ELSE IF IsObj(v) THEN 2 + JsonLengthEntries(v.obj)
    ELSE IF v.arr = <<>> THEN 2
    ELSE 1 + JsonLengthGroups(v.arr)

\* (container.data ?? json)
Unwrap(json) ==
    IF IsObj(json) /\ Get(json.obj, "data") # Null THEN Get(json.obj, "data") ELSE json

\* arr.key.replace(/[^a-zA-Z0-9_]/g, "_").toLowerCase()
ProcessTableName(key) == toLowerCase(Lookup(NonWordReplaced, key))

ActualName(schema, key) ==
    IF Len(schema.tables) = 1 THEN schema.tables[1].name ELSE ProcessTableName(key)

\* rowsMap after the loop over arrays: a later set of a name replaces the
\* earlier one.
RECURSIVE RowsMap(_, _, _)
RowsMap(arrays, schema, map) ==
    IF arrays = <<>> THEN map
    ELSE RowsMap(Tail(arrays), schema,
                 (ActualName(schema, arrays[1].key) :> arrays[1].rows) @@ map)

\* The handler threw and fetch does not catch it: the call rejects.
Failure_rejected(d) == [resp |-> [kind |-> "rejected"], db |-> d]

\* What fetch answers when the handler threw, the dataset being d by then:
\* jsonResponse({success: false, error: message}, 500).
Failure(d) ==
    [resp |-> [kind |-> "error", success |-> FALSE, error |-> "message", status |-> 500],
     db |-> d]

\* A request body that is not JSON: request.json() throws.
Malformed == [malformed |-> TRUE]

\* The response of handleProcess after materializeSchema gave result.
ProcessResponse(result) ==
    IF ~result.ok THEN Failure(result.db)
    ELSE [resp |-> [kind |-> "materialized", success |-> TRUE, status |-> 200,
                    table_count |-> Len(result.tablesCreated),
                    total_rows |-> result.totalRows,
                    tables_created |-> result.tablesCreated],
          db |-> result.db]

ProcessArrays(d, arrays, schema) ==
    ProcessResponse(materializeSchema(schema, RowsMap(arrays, schema, <<>>), d))

\* The payloads table of the fallback.
PayloadsTable ==
    [name |-> "payloads",
     columns |-> <<[name |-> "root_json", type |-> "TEXT"],
                   [name |-> "created_at", type |-> "TEXT"]>>,
     indexes |-> <<>>]

\* createContentReference
ContentReference(contentId) == [ref |-> contentId]

\* The number of chunks of a content of length size.
ChunkCount(size) == (size + CHUNK_SIZE - 1) \div CHUNK_SIZE

\* smartJsonStringify: [value, db].  A JSON text longer than the threshold
\* is stored by storeChunkedContent under contentId and its reference
\* returned.
smartJsonStringify(d, obj, contentId) ==
    IF ~(JsonLength(obj) > CHUNK_SIZE_THRESHOLD) THEN [value |-> JsonText(obj), db |-> d]
    ELSE [value |-> ContentReference(contentId),
          db |-> [d EXCEPT !.chunks = @ \cup {[content_id |-> contentId,
                                               size |-> JsonLength(obj),
                                               total_chunks |-> ChunkCount(JsonLength(obj)),
                                               content |-> obj,
                                               rows |-> ChunkCount(JsonLength(obj))]}]]

\* INSERT INTO payloads (root_json) VALUES (?) and SELECT COUNT(*); the
\* created_at of the row is its default, the time of the INSERT, which the
\* model leaves Null.
PayloadStored(d, jsonStr) ==
    TableFilled(d, PayloadsTable,
                InsertFlat([tbl |-> d.tables["payloads"], count |-> 0], <<"root_json">>, 1,
                           <<KV("root_json", jsonStr)>>))

FallbackResponse(stored) ==
    [resp |-> [kind |-> "payload", success |-> TRUE, status |-> 200, table_count |-> 1,
               total_rows |-> CountRows(stored.db.tables["payloads"].rows),
               tables_created |-> <<"payloads">>],
     db |-> stored.db]

FallbackInsert(str) == FallbackResponse(PayloadStored(str.db, str.value))

\* The fallback of handleProcess.
Fallback(d, data, contentId) ==
    FallbackInsert(smartJsonStringify(ExecCreateTable(d, PayloadsTable).db, data, contentId))

ProcessData(d, data, arrays, contentId) ==
    IF arrays # <<>> /\ \E i \in 1..Len(arrays) : arrays[i].rows # <<>>
    THEN ProcessArrays(d, arrays, inferSchema(arrays, NoHints))
    ELSE Fallback(d, data, contentId)

\* handleProcess, json being the body of the request and contentId what
\* generateContentId gives if it is called: [resp, db].  getSchemaHints
\* gives no hints.
handleProcess(d, json, contentId) ==
    IF json = Malformed THEN Failure(d)
    ELSE ProcessData(d, Unwrap(json), detectArrays(Unwrap(json)), contentId)

\* The rows of a table as a SELECT reads them, each with its id.
RECURSIVE StagedRows(_)
StagedRows(groups) ==
    IF groups = <<>> THEN <<>>
    ELSE [i \in 1..groups[1].n |->
             [n |-> 1, row |-> ("id" :> Num(groups[1].first + i - 1)) @@ groups[1].row]]
         \o StagedRows(Tail(groups))

\* The tables as the statements of sql.exec see them.
AsDataset(tables) == [t \in DOMAIN tables |-> StagedRows(tables[t].rows)]

\* The content ids of the model, in the order they are given out.
StagedContentIds == <<"chunk_1", "chunk_2", "chunk_3", "chunk_4", "chunk_5">>

\* The rows of content_chunks, by content id; of a row the model keeps the
\* content_id.
RECURSIVE ChunkRows(_, _)
ChunkRows(chunks, i) ==
    IF i > Len(StagedContentIds) THEN <<>>
    ELSE (IF \E c \in chunks : c.content_id = StagedContentIds[i] /\ c.rows > 0
          THEN <<[n |-> (CHOOSE c \in chunks : c.content_id = StagedContentIds[i]).rows,
                  row |-> ("content_id" :> Str(StagedContentIds[i]))]>>
          ELSE <<>>)
         \o ChunkRows(chunks, i + 1)

\* The dataset as the statements of sql.exec see it: the tables, and
\* content_chunks once ensureTables has run.
AsStorage(d) ==
    IF d.chunks = {} THEN AsDataset(d.tables)
    ELSE AsDataset(d.tables) @@ ("content_chunks" :> ChunkRows(d.chunks, 1))

\* The dataset after a statement left the tables ds: a table it dropped is
\* gone and a table it emptied has no rows; no statement of the model's
\* requests drops content_chunks.
AfterExec(d, ds) ==
    [tables |-> [t \in DOMAIN ds \cap DOMAIN d.tables |->
                    IF ds[t] = <<>> THEN [d.tables[t] EXCEPT !.rows = <<>>]
                    ELSE d.tables[t]],
     chunks |-> IF "content_chunks" \in DOMAIN ds /\ ds["content_chunks"] = <<>>
                THEN {[c EXCEPT !.rows = 0] : c \in d.chunks}
                ELSE d.chunks]

QueryResponse(d, answer) ==
    IF ~answer.success THEN Failure(AfterExec(d, answer.db))
    ELSE [resp |-> [kind |-> "query", success |-> TRUE, status |-> 200,
                    results |-> answer.rows,
                    row_count |-> CountRows(answer.rows)],
          db |-> AfterExec(d, answer.db)]

\* RestStagingDO.handleQuery on the dataset of this section, body being the
\* body of the request.
handleQuery(d, body) ==
    IF body = Malformed THEN Failure(d)
    ELSE QueryResponse(d, RestStagingDO_handleQuery(AsStorage(d), body.sql))

\* isContentReference: the value is a string that starts with "__CHUNKED__:"
isContentReference(value) == "ref" \in DOMAIN value

\* extractContentId
extractContentId(reference) == reference.ref

\* retrieveChunkedContent on the dataset: [ok, content].  The SELECT throws
\* when content_chunks does not exist; with no rows for contentId the content
\* is null, else the rows' chunk_data joined: the JSON text of the content.
retrieveChunked(d, contentId) ==
    IF d.chunks = {} THEN [ok |-> FALSE, content |-> Null]
    ELSE IF \E c \in d.chunks : c.content_id = contentId /\ c.rows > 0
    THEN [ok |-> TRUE,
          content |-> JsonText((CHOOSE c \in d.chunks : c.content_id = contentId).content)]
    ELSE [ok |-> TRUE, content |-> Null]

\* JSON.parse of a JSON text
JsonParse(text) == text.json

\* smartJsonParse: [ok, value, error]
smartJsonParsed(value, retrieved) ==
    IF ~retrieved.ok THEN [ok |-> FALSE, value |-> Null, error |-> "no such table"]
    ELSE IF retrieved.content = Null
    THEN [ok |-> FALSE, value |-> Null, error |-> "Missing chunked content"]
    ELSE [ok |-> TRUE, value |-> JsonParse(retrieved.content), error |-> ""]

smartJsonParse(d, value) ==
    IF ~isContentReference(value)
    THEN [ok |-> TRUE, value |-> JsonParse(value), error |-> ""]
    ELSE smartJsonParsed(value, retrieveChunked(d, extractContentId(value)))

\* out[k] of handleQueryEnhanced: content ? JSON.parse(content) : null
Rehydrated(retrieved) ==
    IF retrieved.content = Null THEN Null ELSE JsonParse(retrieved.content)

EnhancedValue(d, v) ==
    IF isContentReference(v) THEN Rehydrated(retrieveChunked(d, extractContentId(v))) ELSE v

EnhancedRow(d, row) == [k \in DOMAIN row |-> EnhancedValue(d, row[k])]

\* A row of the result holds a reference and its retrieval throws.
EnhanceThrows(d, rows) ==
    \E i \in 1..Len(rows) : \E k \in DOMAIN rows[i].row :
        /\ isContentReference(rows[i].row[k])
        /\ ~retrieveChunked(d, extractContentId(rows[i].row[k])).ok

EnhancedResponse(d, answer) ==
    IF ~answer.success \/ EnhanceThrows(d, answer.rows) THEN Failure(d)
    ELSE [resp |-> [kind |-> "enhanced", success |-> TRUE, status |-> 200,
                    results |-> [i \in 1..Len(answer.rows) |->
                                    [n |-> answer.rows[i].n,
                                     row |-> EnhancedRow(d, answer.rows[i].row)]],
                    row_count |-> CountRows(answer.rows)],
          db |-> d]

EnhancedAfter(answer, d) == EnhancedResponse(AfterExec(d, answer.db), answer)

\* RestStagingDO.handleQueryEnhanced
handleQueryEnhanced(d, body) ==
    IF body = Malformed THEN Failure(d)
    ELSE EnhancedAfter(RestStagingDO_handleQuery(AsStorage(d), body.sql), d)

\* The tables the chunk store keeps once ensureTables has run.
ChunkTables(d) ==
    IF d.chunks = {} THEN <<>>
    ELSE [t \in {"content_chunks", "chunk_metadata"} |->
             [row_count |-> IF t = "chunk_metadata" THEN Cardinality(d.chunks)
                            ELSE SumOver([c \in d.chunks |-> c.rows], d.chunks),
              columns |-> IF t = "chunk_metadata"
                          THEN <<"content_id", "total_chunks", "original_size",
                                 "content_type", "compressed", "encoding", "created_at">>
                          ELSE <<"id", "content_id", "chunk_index", "chunk_data",
                                 "chunk_size", "created_at">>]]

\* PRAGMA table_info(name), the name not being quoted: for the empty name
\* the statement is "PRAGMA table_info()", which the engine either refuses
\* or runs as a pragma with no table (no rows).
TableInfo(tbl) == IF tbl.name = "" THEN <<>> ELSE Names(tbl.columns)

SchemaOf(d) ==
    [t \in DOMAIN d.tables |->
        [row_count |-> CountRows(d.tables[t].rows), columns |-> TableInfo(d.tables[t])]]
    @@ ChunkTables(d)

TotalRows(tables) == SumOver([t \in DOMAIN tables |-> tables[t].row_count], DOMAIN tables)

\* handleSchema; timestamp is the clock's reading, emptyNameOk whether the
\* engine runs "PRAGMA table_info()".
handleSchema(d, timestamp, emptyNameOk) ==
    IF ~emptyNameOk /\ \E t \in DOMAIN d.tables : d.tables[t].name = "" THEN Failure(d)
    ELSE [resp |-> [kind |-> "schema", success |-> TRUE, status |-> 200,
                    schema |-> [table_count |-> Cardinality(DOMAIN SchemaOf(d)),
                                total_rows |-> TotalRows(SchemaOf(d)),
                                tables |-> SchemaOf(d),
                                metadata |-> [timestamp |-> timestamp]]],
          db |-> d]

\* DELETE /delete: ctx.storage.deleteAll()
handleDelete(d) ==
    [resp |-> [kind |-> "deleted", success |-> TRUE, status |-> 200], db |-> NoStaged]

\* new Response("Not Found", { status: 404 })
NotFoundResponse(d) == [resp |-> [kind |-> "not-found", status |-> 404], db |-> d]

----------------------------------------------------------------------------
(* The RestStagingDO's environment                                         *)

\* The bound of the model.
MaxCalls == 3   \* the requests a dataset gets

\* What generateContentId gives: crypto.randomUUID does not repeat, so the
\* id is one the dataset does not hold.
generateContentId(d) == StagedContentIds[Cardinality(d.chunks) + 1]

P_items == Obj(<<KV("items", Arr(<<G(1, R_extra)>>))>>)
P_items_ids == Obj(<<KV("items", Arr(<<G(1, R_x), G(1, R_y)>>))>>)
P_items_hits == Obj(<<KV("items", Arr(<<G(1, R_x)>>)), KV("hits", Arr(<<G(1, R_extra)>>))>>)
P_empty_rows == Obj(<<KV("results", Arr(<<G(1, Obj(<<>>))>>))>>)
P_scalars == Arr(<<G(2, Num(5))>>)
P_empty_wrapper == Obj(<<KV("data", Arr(<<>>))>>)
P_no_name == Obj(<<KV("-", Arr(<<G(1, R_extra)>>))>>)
P_many == Obj(<<KV("items", Arr(<<G(MAX_SCAN_ROWS + 1, R_extra)>>)), KV("rows", Arr(<<>>))>>)
P_inline == Str("s")
P_long == Obj(<<KV("note", [text |-> "x", rep |-> CHUNK_SIZE_THRESHOLD])>>)

Payloads ==
    { Doc_results, P_items, P_items_ids, P_items_hits, P_empty_rows, P_scalars,
      P_empty_wrapper, P_no_name, P_many, P_inline, P_long, Num(5) }

Q_count == <<"SELECT", SP, "COUNT", LP, STAR, RP, SP, "FROM", SP, "items">>
Q_delete == <<"DELETE", SP, "FROM", SP, "items">>
Q_drop == <<"DROP", SP, "TABLE", SP, "items">>
Q_delete_chunks == <<"DELETE", SP, "FROM", SP, "content_chunks">>
Q_payloads == <<"SELECT", SP, "root_json", SP, "FROM", SP, "payloads">>

StagedQueries == {Q_count, Q_delete, Q_drop, Q_delete_chunks}

EnhancedQueries == {Q_payloads, Q_count}

Timestamps == {"t1", "t2"}

\* The history: the number of requests answered, the last request
\* answered with its response and the dataset it left, and the one before;
\* with it, emptyNameOk: whether the dataset's engine runs
\* "PRAGMA table_info()".
NoRun == [call |-> NoCall, resp |-> NoResp, db |-> NoStaged]

InitStaging ==
    /\ pc = "idle"
    /\ db = NoStaged
    /\ db0 = NoStaged
    /\ call = NoCall
    /\ resp = NoResp
    /\ executed = <<>>
    /\ yielded = <<>>
    /\ \E emptyNameOk \in BOOLEAN :
           log = [calls |-> 0, last |-> NoRun, prev |-> NoRun, emptyNameOk |-> emptyNameOk]

Requested(c) ==
    /\ pc = "idle"
    /\ log.calls < MaxCalls
    /\ call' = c
    /\ pc' = "pending"
    /\ UNCHANGED <<db, db0, resp, executed, yielded, log>>

\* The bodies of the requests: JSON, or a text that is not JSON.
ProcessBodies == Payloads \cup {Malformed}
QueryBodies == [sql : StagedQueries] \cup {Malformed}
EnhancedBodies == [sql : EnhancedQueries] \cup {Malformed}

CallProcess == \E json \in ProcessBodies : Requested([tool |-> "process", json |-> json])
CallStagedQuery ==
    \E body \in QueryBodies : Requested([tool |-> "query", body |-> body])
CallQueryEnhanced ==
    \E body \in EnhancedBodies : Requested([tool |-> "query-enhanced", body |-> body])
\* A path and method fetch does not route.
CallUnrouted == Requested([tool |-> "unrouted"])
CallSchema == Requested([tool |-> "schema"])
CallDelete == Requested([tool |-> "delete"])

\* fetch has answered r.
Responded(tool, r) ==
    /\ pc = "pending"
    /\ call.tool = tool
    /\ resp' = r.resp
    /\ db' = r.db
    /\ pc' = "done"
    /\ log' = [calls |-> log.calls + 1,
               last |-> [call |-> call, resp |-> r.resp, db |-> r.db],
               prev |-> log.last,
               emptyNameOk |-> log.emptyNameOk]
    /\ UNCHANGED <<db0, call, executed, yielded>>

Process ==
    /\ call.tool = "process"
    /\ Responded("process", handleProcess(db, call.json, generateContentId(db)))

StagedQuery ==
    /\ call.tool = "query"
    /\ Responded("query", handleQuery(db, call.body))

QueryEnhanced ==
    /\ call.tool = "query-enhanced"
    /\ Responded("query-enhanced", handleQueryEnhanced(db, call.body))

Schema ==
    /\ call.tool = "schema"
    /\ \E timestamp \in Timestamps :
           Responded("schema", handleSchema(db, timestamp, log.emptyNameOk))

Delete ==
    /\ call.tool = "delete"
    /\ Responded("delete", handleDelete(db))

NotFound ==
    /\ call.tool = "unrouted"
    /\ Responded("unrouted", NotFoundResponse(db))

NextStaging ==
    \/ CallProcess \/ CallStagedQuery \/ CallQueryEnhanced \/ CallSchema \/ CallDelete
    \/ CallUnrouted
    \/ Process \/ StagedQuery \/ QueryEnhanced \/ Schema \/ Delete \/ NotFound
    \/ Return

SpecStaging == InitStaging /\ [][NextStaging]_vars

----------------------------------------------------------------------------
(* Claims about the RestStagingDO (SpecStaging)                            *)

\* The request just answered is a process of json.
Processed(json) == pc = "done" /\ call.tool = "process" /\ call.json = json

\* The dataset the request just answered found.
Before == log.prev.db

RowCount(d) ==
    SumOver([t \in DOMAIN d.tables |-> CountRows(d.tables[t].rows)], DOMAIN d.tables)

\* C13: processing {"results":[{"id":1,"name":"x"},{"id":2,"name":"y"}]}
\* with no hints succeeds and produces exactly one table, results, with the
\* inferred columns id INTEGER and name TEXT, an index on id, and
\* total_rows = 2; and a row field named id does not keep a table from
\* being created or its rows from being inserted.
C13_StagingEndToEnd ==
    /\ Processed(Doc_results) =>
           /\ resp.success
           /\ resp.tables_created = <<"results">> /\ resp.total_rows = 2
           /\ "results" \in DOMAIN db.tables
           /\ [name |-> "id", type |-> "INTEGER"] \in Range(db.tables["results"].columns)
           /\ [name |-> "name", type |-> "TEXT"] \in Range(db.tables["results"].columns)
           /\ IndexName("results", "id") \in db.tables["results"].indexes
    /\ Processed(P_items_ids) =>
           /\ resp.success /\ resp.total_rows = 2
           /\ "items" \in DOMAIN db.tables

\* The payloads row a fallback adds for data.
IsPayloadRow(g, data) ==
    /\ g.n = 1
    /\ IF JsonLength(data) > 32768
       THEN "ref" \in DOMAIN g.row["root_json"]
            /\ \E c \in db.chunks : c.content_id = g.row["root_json"].ref
       ELSE g.row["root_json"] = JsonText(data)

PayloadRows(d) == IF "payloads" \in DOMAIN d.tables THEN d.tables["payloads"].rows ELSE <<>>

\* C14: POST /process returns success: true for every JSON payload:
\* tables are materialized when row-arrays with at least one row are
\* detected, and otherwise exactly one row is appended to payloads that
\* holds the payload's JSON, inline or as a chunk reference when the JSON
\* is longer than 32768 characters.
C14_ProcessNeverFails ==
    pc = "done" /\ call.tool = "process" /\ call.json # Malformed =>
        /\ resp.success
        /\ IF \E i \in 1..Len(detectArrays(Unwrap(call.json))) :
                  detectArrays(Unwrap(call.json))[i].rows # <<>>
           THEN resp.kind = "materialized"
           ELSE /\ resp.kind = "payload"
                /\ Len(PayloadRows(db)) = Len(PayloadRows(Before)) + 1
                /\ SubSeq(PayloadRows(db), 1, Len(PayloadRows(Before))) = PayloadRows(Before)
                /\ IsPayloadRow(PayloadRows(db)[Len(PayloadRows(db))], Unwrap(call.json))

\* The tables of a dataset with their numbers of rows.
TableCounts(d) == [t \in DOMAIN d.tables |-> CountRows(d.tables[t].rows)]

\* A response without the reading of the clock.
Result(r) ==
    IF r.kind = "schema" THEN [r EXCEPT !.schema.metadata.timestamp = ""] ELSE r

\* C15: each operation is idempotent on a dataset: process with the same
\* payload performed twice leaves the tables and row counts, and reports
\* the total_rows, of performing it once; query, schema or delete repeated
\* gives the result and the state of performing it once.
C15_Idempotent ==
    log.calls >= 2 /\ log.prev.call = log.last.call =>
        IF log.last.call.tool = "process"
        THEN /\ TableCounts(log.last.db) = TableCounts(log.prev.db)
             /\ log.last.resp.success = log.prev.resp.success
             /\ log.last.resp.success => log.last.resp.total_rows = log.prev.resp.total_rows
        ELSE /\ log.last.db = log.prev.db
             /\ Result(log.last.resp) = Result(log.prev.resp)

\* The rows of tbl are still there, in their places, in ubl.
KeepsRows(tbl, ubl) ==
    /\ Len(ubl.rows) >= Len(tbl.rows)
    /\ SubSeq(ubl.rows, 1, Len(tbl.rows)) = tbl.rows

\* C20: when materializeSchema returns, the total_rows it reports is the
\* number of rows whose INSERT succeeded, that is the number of rows the
\* dataset gained; a row whose INSERT fails is skipped: the rows and
\* tables after it are still handled, no row inserted before is removed,
\* and the call reports success.
C20_BestEffort ==
    pc = "done" /\ call.tool = "process" /\ resp.kind = "materialized" =>
        /\ resp.success
        /\ resp.total_rows = RowCount(db) - RowCount(Before)
        /\ \A t \in DOMAIN Before.tables :
               t \in DOMAIN db.tables /\ KeepsRows(Before.tables[t], db.tables[t])
        /\ resp.tables_created
               = Names(inferSchema(detectArrays(Unwrap(call.json)), NoHints).tables)
        /\ \A i \in 1..Len(resp.tables_created) :
               toLowerCase(resp.tables_created[i]) \in DOMAIN db.tables
        /\ call.json = P_items_ids /\ "items" \in DOMAIN Before.tables
           /\ UsedIds(Before.tables["items"]) = {1}
           => UsedIds(db.tables["items"]) = {1, 2} /\ resp.total_rows = 1
        /\ call.json = P_items_hits /\ "items" \in DOMAIN Before.tables
           /\ 1 \in UsedIds(Before.tables["items"]) /\ "hits" \notin DOMAIN Before.tables
           => /\ "hits" \in DOMAIN db.tables /\ CountRows(db.tables["hits"].rows) = 1
              /\ resp.total_rows = 1

\* C20 witness: of two rows sent to a table that holds a row with id 1, the
\* row with id 1 was refused and skipped, and the row with id 2, which
\* comes after it, was inserted and is the one row counted.
C20_Witness ==
    /\ Processed(P_items_ids) /\ resp.kind = "materialized" /\ resp.success
    /\ "items" \in DOMAIN Before.tables /\ UsedIds(Before.tables["items"]) = {1}
    /\ UsedIds(db.tables["items"]) = {1, 2}
    /\ resp.total_rows = 1

\* The references the payloads table holds whose content has no chunk row.
DanglingReferences(d) ==
    {PayloadRows(d)[i].row["root_json"] : i \in 1..Len(PayloadRows(d))}
        \cap {ContentReference(c.content_id) : c \in {x \in d.chunks : x.rows = 0}}

\* C21: dereferencing a content reference whose content_id has no chunk
\* rows is a MissingContent error, in smartJsonParse and when a
\* query-enhanced request rehydrates a result column: never an empty or
\* null value in a successful result.
C21_MissingContent ==
    /\ \A v \in DanglingReferences(db) :
           ~smartJsonParse(db, v).ok
           /\ smartJsonParse(db, v).error = "Missing chunked content"
    /\ pc = "done" /\ call.tool = "query-enhanced" /\ call.body = [sql |-> Q_payloads]
       /\ DanglingReferences(db) # {}
       => ~resp.success

\* The handler of the request just answered threw: its body was not JSON,
\* its SQL was refused by the engine, or a CREATE statement of
\* materializeSchema was.
HandlerThrew ==
    \/ call.tool = "process" /\ call.json = Malformed
    \/ call.tool \in {"query", "query-enhanced"} /\ call.body = Malformed
    \/ call.tool \in {"query", "query-enhanced"} /\ call.body # Malformed
       /\ ~RestStagingDO_handleQuery(AsStorage(Before), call.body.sql).success
    \/ call.tool = "process" /\ call.json \in {Doc_results, P_empty_rows}
       /\ Before.tables = <<>>

\* C22: an exception raised inside a handler (process, query,
\* query-enhanced, schema, delete), a malformed request body and an SQL
\* error included, is caught in fetch and answered with the JSON body
\* {success: false, error} and status 500; fetch never rejects; a path or
\* method that is not routed is answered with 404.
C22_FetchBoundary ==
    pc = "done" =>
        /\ resp.kind # "rejected"
        /\ HandlerThrew => resp.kind = "error"
        /\ resp.kind = "error" =>
               resp.status = 500 /\ resp.success = FALSE /\ "error" \in DOMAIN resp
        /\ call.tool = "unrouted" <=> resp.kind = "not-found"
        /\ resp.kind = "not-found" => resp.status = 404
        /\ resp.kind \notin {"error", "not-found"} => resp.status = 200 /\ resp.success

\* C22 witness: DROP TABLE items on a dataset with no table was refused by
\* the engine and answered with status 500.
C22_Witness ==
    /\ pc = "done" /\ call.tool = "query" /\ call.body = [sql |-> Q_drop]
    /\ Before.tables = <<>>
    /\ resp.kind = "error" /\ resp.status = 500 /\ ~resp.success

----------------------------------------------------------------------------
(* staging utils: datasets addressed by data_access_id                     *)
(*                                                                         *)
(* Every dataset is the storage of one RestStagingDO, which the namespace  *)
(* finds by name: doNamespace.get(doNamespace.idFromName(dataAccessId)).   *)
(* Several callers run at once; a caller's requests to a dataset are       *)
(* steps, and between two steps of one caller the others may take theirs.  *)
(* Here db maps an object id to its dataset, and pc, call and resp map a   *)
(* caller to its position, its call and its result.                        *)

\* The bounds of the model.
MaxRequests == 3   \* the calls the callers make

DataAccessIds == {"d1", "d2"}
Callers == {"c1", "c2"}

\* Every name gives the id of one and the same object.
idFromName_shared(name) == [object |-> "d1"]

\* doNamespace.idFromName(name): the id of the object named name.
idFromName(name) == [object |-> name]

\* doNamespace.get(id): the stub of the object, which serves its requests
\* on its own storage.
StubOf(id) == id.object

\* doInstance.fetch(request) on the datasets ds: [resp, db]
FetchAt(ds, stub, r) == [resp |-> r.resp, db |-> [ds EXCEPT ![stub] = r.db]]

\* What a caller sends to be staged.
StagedData == {Get(P_items.obj, "items"), P_items, Num(5), P_items_ids}

DatasetQueries == {Q_count, Q_delete}

\* JSON.stringify({ data })
ProcessBody(data) == Obj(<<KV("data", data)>>)

\* stageToDoAndRespond after /process answered: it throws unless the
\* answer says success.
StageFailed == [kind |-> "thrown", error |-> "Failed to stage data in Durable Object"]

\* stageToDoAndRespond's result once /schema answered.
StageResult(c, schemaResp) ==
    [kind |-> "staged", dataAccessId |-> c.id,
     schema |-> IF schemaResp.success THEN schemaResp.schema ELSE Null,
     tablesCreated |-> c.processed.tables_created,
     totalRows |-> c.processed.total_rows]

\* queryDataFromDo on the dataset d of a RestStagingDO: [resp, db]
QueryDataAt(d, r) == [resp |-> r.resp, db |-> AfterExec(d, r.db)]

queryDataFromDataset(d, sql) == QueryDataAt(d, queryDataFromDo(AsStorage(d), sql, 100))

InitDatasets ==
    /\ pc = [c \in Callers |-> "idle"]
    /\ db = [id \in DataAccessIds |-> NoStaged]
    /\ db0 = [id \in DataAccessIds |-> NoStaged]
    /\ call = [c \in Callers |-> NoCall]
    /\ resp = [c \in Callers |-> NoResp]
    /\ executed = <<>>
    /\ yielded = <<>>
    /\ \E emptyNameOk \in BOOLEAN :
           log = [requests |-> 0, actor |-> "none", emptyNameOk |-> emptyNameOk]

\* Caller c starts a call: the handle of the dataset is resolved from the
\* data access id.
Starts(c, phase, cl) ==
    /\ pc[c] = "idle"
    /\ log.requests < MaxRequests
    /\ pc' = [pc EXCEPT ![c] = phase]
    /\ call' = [call EXCEPT ![c] = cl]
    /\ log' = [log EXCEPT !.requests = @ + 1, !.actor = c]
    /\ UNCHANGED <<db, db0, resp, executed, yielded>>

\* Caller c's step gave r = [resp, db] and leaves c at phase with call cl.
Steps(c, phase, cl, r) ==
    /\ pc' = [pc EXCEPT ![c] = phase]
    /\ call' = [call EXCEPT ![c] = cl]
    /\ resp' = [resp EXCEPT ![c] = r.resp]
    /\ db' = r.db
    /\ log' = [log EXCEPT !.actor = c]
    /\ UNCHANGED <<db0, executed, yielded>>

\* stageToDoAndRespond: generateDataAccessId gives the id; the model lets it
\* be any id, one in use included.
CallStage ==
    \E c \in Callers, data \in StagedData, dataAccessId \in DataAccessIds :
        Starts(c, "process",
               [tool |-> "stage", id |-> dataAccessId, data |-> data,
                stub |-> StubOf(idFromName(dataAccessId)), processed |-> NoResp])

CallQueryDataset ==
    \E c \in Callers, sql \in DatasetQueries, dataAccessId \in DataAccessIds :
        Starts(c, "query",
               [tool |-> "query_data", id |-> dataAccessId, sql |-> sql,
                stub |-> StubOf(idFromName(dataAccessId))])

\* DELETE /delete sent to the object of a dataset.
CallDeleteDataset ==
    \E c \in Callers, dataAccessId \in DataAccessIds :
        Starts(c, "delete",
               [tool |-> "delete", id |-> dataAccessId,
                stub |-> StubOf(idFromName(dataAccessId))])

\* stageToDoAndRespond: POST /process has been answered.
StageProcessed(c, r) ==
    IF r.resp.success
    THEN Steps(c, "schema", [call[c] EXCEPT !.processed = r.resp],
               [resp |-> resp[c], db |-> r.db])
    ELSE Steps(c, "done", call[c], [resp |-> StageFailed, db |-> r.db])

StageProcess ==
    \E c \in Callers :
        /\ pc[c] = "process"
        /\ StageProcessed(c, FetchAt(db, call[c].stub,
                                     handleProcess(db[call[c].stub], ProcessBody(call[c].data),
                                                   generateContentId(db[call[c].stub]))))

\* stageToDoAndRespond: GET /schema has been answered.
StageSchemaAnswered(c, r) ==
    Steps(c, "done", call[c], [resp |-> StageResult(call[c], r.resp), db |-> r.db])

StageSchema ==
    \E c \in Callers, timestamp \in Timestamps :
        /\ pc[c] = "schema"
        /\ StageSchemaAnswered(c, FetchAt(db, call[c].stub,
                                          handleSchema(db[call[c].stub], timestamp,
                                                       log.emptyNameOk)))

QueryDataset ==
    \E c \in Callers :
        /\ pc[c] = "query"
        /\ Steps(c, "done", call[c],
                 FetchAt(db, call[c].stub, queryDataFromDataset(db[call[c].stub], call[c].sql)))

DeleteDataset ==
    \E c \in Callers :
        /\ pc[c] = "delete"
        /\ Steps(c, "done", call[c], FetchAt(db, call[c].stub, handleDelete(db[call[c].stub])))

\* The caller has its result.
Returns ==
    \E c \in Callers :
        /\ pc[c] = "done"
        /\ pc' = [pc EXCEPT ![c] = "idle"]
        /\ call' = [call EXCEPT ![c] = NoCall]
        /\ resp' = [resp EXCEPT ![c] = NoResp]
        /\ log' = [log EXCEPT !.actor = c]
        /\ UNCHANGED <<db, db0, executed, yielded>>

NextDatasets ==
    \/ CallStage \/ CallQueryDataset \/ CallDeleteDataset
    \/ StageProcess \/ StageSchema \/ QueryDataset \/ DeleteDataset
    \/ Returns

SpecDatasets == InitDatasets /\ [][NextDatasets]_vars

----------------------------------------------------------------------------
(* Claims about the datasets (SpecDatasets)                                *)

----------------------------------------------------------------------------
(* codemode: CodeModeProxy                                                 *)
(*                                                                         *)
(* The proxy is [stubByDoId, resolved, forwarded]: stubByDoId the cache, a *)
(* function from the doIds it holds to their stubs; resolved the doIds     *)
(* handed to ns.get, in order; forwarded the callTool calls made, in       *)
(* order, each [stub, name, args].  A stub is [object, handle]: the object *)
(* it reaches and which of the handles ns.get gave it is.  callFunction    *)
(* has no await before it calls callTool, so a call runs from the lookup   *)
(* to the callTool call in one step; calls overlap while callTool runs.    *)

NoStub == [object |-> "none", handle |-> 0]

\* The lookup gives a stub the cache holds, whatever its key.
CachedStub_any(stubByDoId, doId) ==
    IF DOMAIN stubByDoId = {} THEN NoStub
    ELSE stubByDoId[CHOOSE k \in DOMAIN stubByDoId : TRUE]

\* this.stubByDoId.get(options.doId)
CachedStub(stubByDoId, doId) ==
    IF doId \in DOMAIN stubByDoId THEN stubByDoId[doId] ELSE NoStub

\* ns.get(ns.idFromString(doId)): a new handle of the object doId.
Resolve(proxy, doId) == [object |-> doId, handle |-> Len(proxy.resolved) + 1]

\* stub.callTool(options.functionName, [options.args])
Forward(proxy, stub, options) ==
    [proxy EXCEPT !.forwarded = Append(@, [stub |-> stub, name |-> options.functionName,
                                           args |-> <<options.args>>])]

\* The proxy once stub has been resolved and cached for options.doId.
Cached(proxy, stub, options) ==
    Forward([proxy EXCEPT !.stubByDoId = (options.doId :> stub) @@ @,
                          !.resolved = Append(@, options.doId)],
            stub, options)

CallWith(proxy, stub, options) ==
    IF stub = NoStub THEN Cached(proxy, Resolve(proxy, options.doId), options)
    ELSE Forward(proxy, stub, options)

\* CodeModeProxy.callFunction up to the callTool call: the proxy after it.
callFunction(proxy, options) ==
    CallWith(proxy, CachedStub(proxy.stubByDoId, options.doId), options)

----------------------------------------------------------------------------
(* The proxy's environment: isolates that call it                          *)

\* The bound of the model.
MaxProxyCalls == 3   \* the calls the isolates make

Isolates == {"i1", "i2"}
DoIds == {"a", "b"}
FunctionNames == {"__query", "__store"}
ProxyArgs == {1, 2}

NoProxy == [stubByDoId |-> <<>>, resolved |-> <<>>, forwarded |-> <<>>]

InitProxy ==
    /\ pc = [i \in Isolates |-> "idle"]
    /\ db = NoProxy
    /\ db0 = NoProxy
    /\ call = [i \in Isolates |-> NoCall]
    /\ resp = [i \in Isolates |-> NoResp]
    /\ executed = <<>>
    /\ yielded = <<>>
    /\ log = <<>>

\* An isolate calls callFunction; the proxy runs it up to callTool.
CallFunction ==
    \E i \in Isolates, functionName \in FunctionNames, args \in ProxyArgs, doId \in DoIds :
        /\ pc[i] = "idle"
        /\ Len(db.forwarded) < MaxProxyCalls
        /\ call' = [call EXCEPT ![i] = [tool |-> "callFunction", functionName |-> functionName,
                                        args |-> args, doId |-> doId,
                                        forwarded |-> Len(db.forwarded) + 1]]
        /\ db' = callFunction(db, call'[i])
        /\ pc' = [pc EXCEPT ![i] = "forwarded"]
        /\ UNCHANGED <<db0, resp, executed, yielded, log>>

\* callTool has answered: callFunction returns what it gave.
CallToolAnswers ==
    \E i \in Isolates :
        /\ pc[i] = "forwarded"
        /\ resp' = [resp EXCEPT ![i] = [kind |-> "result",
                                        of |-> db.forwarded[call[i].forwarded]]]
        /\ pc' = [pc EXCEPT ![i] = "done"]
        /\ UNCHANGED <<db, db0, call, executed, yielded, log>>

\* The isolate has its result.
IsolateReturns ==
    \E i \in Isolates :
        /\ pc[i] = "done"
        /\ pc' = [pc EXCEPT ![i] = "idle"]
        /\ call' = [call EXCEPT ![i] = NoCall]
        /\ resp' = [resp EXCEPT ![i] = NoResp]
        /\ UNCHANGED <<db, db0, executed, yielded, log>>

NextProxy == CallFunction \/ CallToolAnswers \/ IsolateReturns

SpecProxy == InitProxy /\ [][NextProxy]_vars

----------------------------------------------------------------------------
(* Claims about the proxy (SpecProxy)                                      *)

\* C24: whatever the sequence and interleaving of callFunction calls, the
\* proxy resolves a handle at most once for each doId (the first use
\* resolves and caches), every later call with that doId uses the cached
\* handle, and every call is forwarded as callTool(functionName, [args])
\* to the handle of its own doId, never to one cached for another doId.
C24_ProxyCache ==
    /\ \A j, k \in 1..Len(db.resolved) : db.resolved[j] = db.resolved[k] => j = k
    /\ \A d \in DOMAIN db.stubByDoId : db.stubByDoId[d].object = d
    /\ \A i \in Isolates :
           call[i] # NoCall =>
               /\ call[i].forwarded \in 1..Len(db.forwarded)
               /\ db.forwarded[call[i].forwarded].stub.object = call[i].doId
               /\ call[i].doId \in DOMAIN db.stubByDoId
               /\ db.forwarded[call[i].forwarded]
                      = [stub |-> db.stubByDoId[call[i].doId],
                         name |-> call[i].functionName, args |-> <<call[i].args>>]

\* C24 witness: two calls are in flight, one for each doId, after an
\* earlier call for one of the doIds: two handles were resolved for the
\* three calls, and each call went to the handle of its doId.
C24_Witness ==
    /\ pc["i1"] = "forwarded" /\ pc["i2"] = "forwarded"
    /\ call["i1"].doId = "a" /\ call["i2"].doId = "b"
    /\ Len(db.forwarded) = 3 /\ Len(db.resolved) = 2
    /\ db.forwarded[call["i1"].forwarded].stub.object = "a"
    /\ db.forwarded[call["i2"].forwarded].stub.object = "b"

----------------------------------------------------------------------------
(* registry: ToolRegistry                                                  *)
(*                                                                         *)
(* A tool entry is [name, hidden]; the registry is [tools, toolByName]:    *)
(* the entries in the order they were added, and the entry of each name.   *)
(* What a handler gives is [kind |-> "handled", tool, input].              *)

\* Every entry is taken for a visible one.
NotHidden_all(tools) == tools

\* The entries that are not hidden, in their order: if (tool.hidden) continue
NotHidden(tools) == SelectSeq(tools, LAMBDA t : ~t.hidden)

\* add(...entries)
RECURSIVE SetAll(_, _)
SetAll(toolByName, entries) ==
    IF entries = <<>> THEN toolByName
    ELSE SetAll((entries[1].name :> entries[1]) @@ toolByName, Tail(entries))

add(registry, entries) ==
    [tools |-> registry.tools \o entries, toolByName |-> SetAll(registry.toolByName, entries)]

\* registerAll: the names server.tool is called with, in order.
registerAll(registry) == Names(NotHidden(registry.tools))

\* toToolDescriptors: the keys of the descriptors.
toToolDescriptors(registry) == Range(Names(NotHidden(registry.tools)))

\* getDefinitions: the names of the definitions, in order.
getDefinitions(registry) == Names(NotHidden(registry.tools))

\* buildExecutorFns: the keys of the function map.
buildExecutorFns(registry) == Range(Names(registry.tools))

\* tool.handler(input, ctx)
Handled(entry, input) == [kind |-> "handled", tool |-> entry.name, input |-> input]

\* args[0] ?? {}
FirstArg(args) == IF args = <<>> THEN "{}" ELSE args[1]

\* handleIsolateCall
handleIsolateCall(registry, functionName, args) ==
    IF functionName \notin DOMAIN registry.toolByName
    THEN [kind |-> "unknown", error |-> "Unknown tool: " \o functionName]
    ELSE Handled(registry.toolByName[functionName], FirstArg(args))

----------------------------------------------------------------------------
(* The registry's environment                                              *)

\* The bound of the model.
MaxTools == 4   \* the entries a registry gets

\* The hidden tools are the entries of directQueryTools and storeTools; the
\* others stand for the tools a server shows.
HiddenEntries ==
    {[name |-> "__query", hidden |-> TRUE], [name |-> "__query_batch", hidden |-> TRUE],
     [name |-> "__store", hidden |-> TRUE]}
ShownEntries ==
    {[name |-> "query_data", hidden |-> FALSE], [name |-> "data_manager", hidden |-> FALSE]}
Entries == HiddenEntries \cup ShownEntries

\* What add is called with: one entry, or the two of directQueryTools.
EntryLists ==
    {<<e>> : e \in Entries}
        \cup {<<[name |-> "__query", hidden |-> TRUE], [name |-> "__query_batch", hidden |-> TRUE]>>}

IsolateCallNames == {e.name : e \in Entries} \cup {"nope"}

NoRegistry == [tools |-> <<>>, toolByName |-> <<>>]

InitRegistry ==
    /\ pc = "idle"
    /\ db = NoRegistry
    /\ db0 = NoRegistry
    /\ call = NoCall
    /\ resp = NoResp
    /\ executed = <<>>
    /\ yielded = <<>>
    /\ log = <<>>

Asked(c) ==
    /\ pc = "idle"
    /\ call' = c
    /\ pc' = "pending"
    /\ UNCHANGED <<db, db0, resp, executed, yielded, log>>

CallAdd ==
    \E entries \in EntryLists :
        /\ Len(db.tools) + Len(entries) <= MaxTools
        /\ Asked([tool |-> "add", entries |-> entries])
CallRegisterAll == Asked([tool |-> "registerAll"])
CallToToolDescriptors == Asked([tool |-> "toToolDescriptors"])
CallGetDefinitions == Asked([tool |-> "getDefinitions"])
CallBuildExecutorFns == Asked([tool |-> "buildExecutorFns"])
CallHandleIsolateCall ==
    \E functionName \in IsolateCallNames, args \in {<<>>, <<"input">>} :
        Asked([tool |-> "handleIsolateCall", functionName |-> functionName, args |-> args])

Gave(tool, registry, r) ==
    /\ pc = "pending"
    /\ call.tool = tool
    /\ db' = registry
    /\ resp' = r
    /\ pc' = "done"
    /\ UNCHANGED <<db0, call, executed, yielded, log>>

Add == call.tool = "add" /\ Gave("add", add(db, call.entries), [kind |-> "added"])
RegisterAll ==
    Gave("registerAll", db, [kind |-> "registered", names |-> registerAll(db)])
ToToolDescriptors ==
    Gave("toToolDescriptors", db, [kind |-> "descriptors", keys |-> toToolDescriptors(db)])
GetDefinitions ==
    Gave("getDefinitions", db, [kind |-> "definitions", names |-> getDefinitions(db)])
BuildExecutorFns ==
    Gave("buildExecutorFns", db, [kind |-> "fns", keys |-> buildExecutorFns(db)])
HandleIsolateCall ==
    /\ call.tool = "handleIsolateCall"
    /\ Gave("handleIsolateCall", db, handleIsolateCall(db, call.functionName, call.args))

NextRegistry ==
    \/ CallAdd \/ CallRegisterAll \/ CallToToolDescriptors \/ CallGetDefinitions
    \/ CallBuildExecutorFns \/ CallHandleIsolateCall
    \/ Add \/ RegisterAll \/ ToToolDescriptors \/ GetDefinitions \/ BuildExecutorFns
    \/ HandleIsolateCall
    \/ Return

SpecRegistry == InitRegistry /\ [][NextRegistry]_vars

----------------------------------------------------------------------------
(* Claims about the registry (SpecRegistry)                                *)

HiddenNames == {"__query", "__query_batch", "__store"}

\* The names added so far.
AddedNames == {db.tools[i].name : i \in 1..Len(db.tools)}

\* C25: the hidden tools (__query, __query_batch, __store) never appear in
\* what registerAll registers, in toToolDescriptors or in getDefinitions,
\* whatever the order the tools were added in, while every shown tool
\* does; the hidden tools are reached through handleIsolateCall and the
\* executor functions, and handleIsolateCall answers an unknown name with
\* {error: "Unknown tool: ..."} and does not throw.
C25_HiddenTools ==
    pc = "done" =>
        /\ call.tool \in {"registerAll", "getDefinitions"} =>
               /\ Range(resp.names) \cap HiddenNames = {}
               /\ Range(resp.names) = AddedNames \ HiddenNames
        /\ call.tool = "toToolDescriptors" =>
               /\ resp.keys \cap HiddenNames = {}
               /\ resp.keys = AddedNames \ HiddenNames
        /\ call.tool = "buildExecutorFns" => resp.keys = AddedNames
        /\ call.tool = "handleIsolateCall" =>
               IF call.functionName \in AddedNames
               THEN resp.kind = "handled" /\ resp.tool = call.functionName
               ELSE resp = [kind |-> "unknown",
                            error |-> "Unknown tool: " \o call.functionName]

\* C25 witness: with a hidden tool added before and after a shown one,
\* registerAll registered the shown tool only.
C25_Witness ==
    /\ pc = "done" /\ call.tool = "registerAll"
    /\ Len(db.tools) >= 3
    /\ db.tools[1].hidden /\ ~db.tools[2].hidden /\ db.tools[3].hidden
    /\ resp.names = <<db.tools[2].name>>

----------------------------------------------------------------------------
(* codemode: the evaluator                                                 *)
(*                                                                         *)
(* The module createEvaluator builds has evaluate() run the agent's code   *)
(* inside try { ... } catch (err) { return { error: err.message, stack:    *)
(* err.stack } }.  The agent's code is [kind, ...]:                        *)
(*   "throw"  value         throw value                                    *)
(*   "call"   helper awaited   return await helper(...) / return helper(...)*)
(*   "count"                globalThis.n = (globalThis.n || 0) + 1;        *)
(*                          return globalThis.n                            *)
(* host is what callTool gives the helper.  An evaluation ends with        *)
(* [kind |-> "value", value], with [kind |-> "structured", error, stack]   *)
(* or with [kind |-> "rejected", reason]: the promise of evaluate()        *)
(* rejects.                                                                *)

Undefined == [undefined |-> TRUE]

\* new Error(message)
ErrorOf(message) == [message |-> message, stack |-> "Error: " \o message]

TypeError == ErrorOf("Cannot read properties")

NormalCompletion(value) == [kind |-> "normal", value |-> value]
ThrowCompletion(value) == [kind |-> "throw", value |-> value]

\* result && result.error
HasError(result) == result # Null /\ "error" \in DOMAIN result

\* The digits of an index of the model.
IndexText(i) == <<"0", "1", "2">>[i + 1]

\* The helper query: what its promise settles with.
query(result) ==
    IF HasError(result) THEN ThrowCompletion(ErrorOf(result.error))
    ELSE IF result = Null THEN ThrowCompletion(TypeError)
    ELSE NormalCompletion(result.rows)

\* The first item of a batch result that carries an error, or 0.
FirstFailing(items) ==
    IF \E i \in 1..Len(items) : HasError(items[i])
    THEN Min({i \in 1..Len(items) : HasError(items[i])})
    ELSE 0

BatchItems(items, i) ==
    IF i = 0 THEN NormalCompletion(items)
    ELSE ThrowCompletion(ErrorOf("Query " \o IndexText(i - 1) \o " failed: " \o items[i].error))

\* The helper queryBatch
queryBatch(result) ==
    IF HasError(result) THEN ThrowCompletion(ErrorOf(result.error))
    ELSE IF result = Null THEN ThrowCompletion(TypeError)
    ELSE BatchItems(result.results, FirstFailing(result.results))

\* The helper store; the error carries code, hint and details besides.
store(result) ==
    IF HasError(result) THEN ThrowCompletion(ErrorOf(result.error)) ELSE NormalCompletion(result)

Helper(helper, result) ==
    IF helper = "query" THEN query(result)
    ELSE IF helper = "queryBatch" THEN queryBatch(result)
    ELSE store(result)

\* err.message and err.stack of what was caught
MemberOf(err, member) == IF member \in DOMAIN err THEN err[member] ELSE Undefined

\* catch (err) { return { error: err.message, stack: err.stack }; }: reading
\* a member of null or undefined throws, out of the catch block.
Caught(err) ==
    IF err \in {Null, Undefined} THEN [kind |-> "rejected", reason |-> TypeError]
    ELSE [kind |-> "structured", error |-> MemberOf(err, "message"),
          stack |-> MemberOf(err, "stack")]

\* The try block ended with completion c, awaited telling whether c was
\* reached inside the block: the promise of a return without await settles
\* after the block was left.
Settled(c, awaited) ==
    IF c.kind = "normal" THEN [kind |-> "value", value |-> c.value]
    ELSE IF awaited THEN Caught(c.value)
    ELSE [kind |-> "rejected", reason |-> c.value]

\* evaluate() on the agent's code in an isolate whose globalThis.n is n:
\* [outcome, n]
evaluate(code, host, n) ==
    IF code.kind = "throw" THEN [outcome |-> Settled(ThrowCompletion(code.value), TRUE), n |-> n]
    ELSE IF code.kind = "call"
    THEN [outcome |-> Settled(Helper(code.helper, host), code.awaited), n |-> n]
    ELSE [outcome |-> Settled(NormalCompletion(n + 1), TRUE), n |-> n + 1]

\* The globalThis.n of the isolate loader.get gives for a name: 0 in an
\* isolate just created.  Math.random() gives a name no isolate has.
LoadedN(isolates, name) == IF name \in DOMAIN isolates THEN isolates[name] ELSE 0

\* The function createEvaluator returns, run on the isolates there are:
\* [outcome, isolates]
RunIn(isolates, name, r) ==
    [outcome |-> r.outcome, isolates |-> (name :> r.n) @@ isolates]

Evaluator(isolates, name, code, host) ==
    RunIn(isolates, name, evaluate(code, host, LoadedN(isolates, name)))

----------------------------------------------------------------------------
(* The evaluator's environment                                             *)

\* The bound of the model.
MaxEvaluations == 3   \* the evaluations run

Thrown_values == {ErrorOf("boom"), Null, Undefined, [text |-> "boom"]}

Codes ==
    [kind : {"throw"}, value : Thrown_values]
        \cup [kind : {"call"}, helper : {"query", "queryBatch", "store"}, awaited : BOOLEAN]
        \cup {[kind |-> "count"]}

\* What callTool gives: the result of __query, __query_batch or __store.
HostError == [error |-> "no such table: missing", error_code |-> "QUERY_ERROR"]
HostRows == [rows |-> <<>>]
HostBatchOk == [results |-> <<HostRows, HostRows>>]
HostBatchSecondFails == [results |-> <<HostRows, HostError>>]
HostStored == [rows_inserted |-> 1]

HostResults(code) ==
    IF code.kind # "call" THEN {Null}
    ELSE IF code.helper = "query" THEN {HostRows, HostError}
    ELSE IF code.helper = "queryBatch" THEN {HostBatchOk, HostBatchSecondFails, HostError}
    ELSE {HostStored, HostError}

\* `code-${Math.random()}`: the names, in the order they are given out.
IsolateNames == <<"code-1", "code-2", "code-3", "code-4">>

InitEval ==
    /\ pc = "idle"
    /\ db = <<>>
    /\ db0 = <<>>
    /\ call = NoCall
    /\ resp = NoResp
    /\ executed = <<>>
    /\ yielded = <<>>
    /\ log = <<>>

CallEvaluator ==
    \E code \in Codes : \E host \in HostResults(code) :
        /\ pc = "idle"
        /\ Len(log) < MaxEvaluations
        /\ call' = [tool |-> "evaluate", code |-> code, host |-> host]
        /\ pc' = "pending"
        /\ UNCHANGED <<db, db0, resp, executed, yielded, log>>

Evaluated(r) ==
    /\ resp' = r.outcome
    /\ db' = r.isolates
    /\ log' = Append(log, call.code.kind)
    /\ pc' = "done"
    /\ UNCHANGED <<db0, call, executed, yielded>>

Evaluate ==
    /\ pc = "pending"
    /\ call.tool = "evaluate"
    /\ Evaluated(Evaluator(db, IsolateNames[Cardinality(DOMAIN db) + 1], call.code, call.host))

NextEval == CallEvaluator \/ Evaluate \/ Return

SpecEval == InitEval /\ [][NextEval]_vars

----------------------------------------------------------------------------
(* Claims about the evaluator (SpecEval)                                   *)

\* The agent's code throws or its helper does.
CodeThrows ==
    \/ call.code.kind = "throw"
    \/ call.code.kind = "call" /\ Helper(call.code.helper, call.host).kind = "throw"

\* C26: an error thrown while the agent's code runs inside evaluate(), the
\* errors the helpers raise on a host result that carries an error
\* included (queryBatch naming the index of the first failing item), ends
\* the evaluation with a {error, stack} value and not with a rejected
\* evaluation; and every evaluation runs in an isolate just created: no
\* state of an evaluation is seen by the next.
C26_StructuredErrors ==
    pc = "done" /\ call.tool = "evaluate" =>
        /\ resp.kind # "rejected"
        /\ CodeThrows => resp.kind = "structured"
        /\ call.code.kind = "call" /\ call.host = HostBatchSecondFails /\ call.code.awaited
           /\ call.code.helper = "queryBatch"
           => resp.error = "Query 1 failed: no such table: missing"
        /\ call.code.kind = "count" => resp = [kind |-> "value", value |-> 1]

----------------------------------------------------------------------------
(* Claims about the query gate (SpecGate), continued                       *)

\* The dataset d with other values in its sensitive columns.
SecretsChanged(d) ==
    [t \in DOMAIN d |->
        [i \in 1..Len(d[t]) |->
            [n |-> d[t][i].n,
             row |-> [c \in DOMAIN d[t][i].row |->
                         IF c \in REDACTED_COLUMNS THEN Str("other") ELSE d[t][i].row[c]]]]]

\* C27: the redaction is a noninterference guarantee: two datasets that
\* differ only in the values of the sensitive columns (credential_hash,
\* session_token, identity_email) give the same __query and __query_batch
\* results for every query: no accepted query lets a stored sensitive
\* value influence what is returned.
C27_Noninterference ==
    /\ Done("__query") =>
           resp = QueryHandler(SecretsChanged(db), call.sql, call.params).resp
    /\ Done("__query_batch") =>
           resp = QueryBatchHandler(SecretsChanged(db), call.queries).resp

----------------------------------------------------------------------------
(* Claims about the __store tool (SpecStore), continued                    *)

\* The number of rows of table t in d.
RowsIn(d, t) == IF t \in DOMAIN d THEN CountRows(d[t].rows) ELSE 0

\* C28: store is all-or-nothing and its summary is exact: a call that
\* returns rows_inserted = n has inserted exactly n rows, n being the
\* number of rows passed, and a call that returns an error, STORE_ERROR
\* raised while creating the table, adding columns or inserting one of the
\* 500-row batches included, has created no table, added no column and
\* inserted no row.
C28_AllOrNothing ==
    [][pc = "pending" /\ pc' = "done" /\ call.tool = "__store"
       => /\ resp'.kind = "error" => db' = db
          /\ resp'.kind = "stored" =>
                 /\ resp'.rows_inserted = CountRows(call.data)
                 /\ RowsIn(db', toLowerCase(call.table))
                        = RowsIn(db, toLowerCase(call.table)) + CountRows(call.data)
      ]_vars

----------------------------------------------------------------------------
(* restFetch: the upstream HTTP client with retries (SpecFetch)            *)

DEFAULT_RETRIES == 3

DEFAULT_RETRY_ON == {429, 500, 502, 503, 504}

\* A JavaScript number: NaN or an integer value.
NaN == [nan |-> TRUE, value |-> 0]
JsNumber(v) == [nan |-> FALSE, value |-> v]

DigitValue(c) ==
    CASE c = "0" -> 0 [] c = "1" -> 1 [] c = "2" -> 2 [] c = "3" -> 3
      [] c = "4" -> 4 [] c = "5" -> 5 [] c = "6" -> 6 [] c = "7" -> 7
      [] c = "8" -> 8 [] c = "9" -> 9 [] OTHER -> -1

RECURSIVE DigitsValue(_, _)
\* The value of a run of decimal digits, -1 when a character is no digit.
DigitsValue(text, acc) ==
    IF text = <<>> THEN acc
    ELSE IF DigitValue(Head(text)) < 0 THEN -1
    ELSE DigitsValue(Tail(text), 10 * acc + DigitValue(Head(text)))

\* Number(text) of a header value, a sequence of characters: the empty
\* text is 0, an optionally signed run of digits is its value, anything
\* else is NaN.
Number(text) ==
    IF text = <<>> THEN JsNumber(0)
    ELSE IF Head(text) = "-" /\ Len(text) > 1 /\ DigitsValue(Tail(text), 0) >= 0
         THEN JsNumber(0 - DigitsValue(Tail(text), 0))
    ELSE IF Head(text) # "-" /\ DigitsValue(text, 0) >= 0
         THEN JsNumber(DigitsValue(text, 0))
    ELSE NaN

\* number * 1000 || fallback
TimesThousandOr(number, fallback) ==
    IF number.nan \/ number.value = 0 THEN fallback ELSE number.value * 1000

\* Math.min(1000 * 2 ** attempt, 10_000), with the cap left out.
delay_uncapped(attempt) == 1000 * 2^attempt

\* Math.min(1000 * 2 ** attempt, 10_000)
delay(attempt) == Min({1000 * 2^attempt, 10000})

\* response.headers.get("Retry-After"): null when the header is absent.
NoHeader == [present |-> FALSE, text |-> <<>>]
HeaderOf(text) == [present |-> TRUE, text |-> text]

\* The truthiness of the header value: null and "" are falsy.
Truthy(header) == header.present /\ header.text # <<>>

waitMs(response, attempt) ==
    IF Truthy(response.retryAfter)
    THEN Min({TimesThousandOr(Number(response.retryAfter.text), delay(attempt)), 30000})
    ELSE delay(attempt)

\* err instanceof Error ? err : new Error(String(err))
AsError(err) == IF err.isError THEN err ELSE [isError |-> TRUE, text |-> err.text]

\* lastError ?? new Error(`restFetch failed after ${retries + 1} attempts`)
ThrownAtEnd(lastError, retries) ==
    IF lastError = Undefined
    THEN [isError |-> TRUE,
          text |-> "restFetch failed after " \o ToString(retries + 1) \o " attempts"]
    ELSE lastError

MaxRetries == 5

RetriesOptions == {Undefined} \cup {JsNumber(n) : n \in -1..MaxRetries}

RetryOnOptions == {Undefined} \cup {[set |-> {}], [set |-> {404}]}

Statuses == {200, 404, 429, 503}

RetryAfterValues ==
    {NoHeader, HeaderOf(<<>>), HeaderOf(<<"0">>), HeaderOf(<<"5">>),
     HeaderOf(<<"6", "0">>), HeaderOf(<<"-", "1">>), HeaderOf(<<"W", "e", "d">>)}

TimeoutError == [isError |-> TRUE, text |-> "The operation was aborted due to timeout"]

ThrownValues == {TimeoutError, [isError |-> TRUE, text |-> "fetch failed"],
                 [isError |-> FALSE, text |-> "boom"]}

NoOutcome == [kind |-> "none"]

InitFetch ==
    /\ pc = "idle"
    /\ db = <<>>
    /\ db0 = <<>>
    /\ call = NoCall
    /\ resp = NoResp
    /\ executed = <<>>
    /\ yielded = <<>>
    /\ log = <<>>

\* restFetch(baseUrl, path, params, opts) up to the loop
CallRestFetch ==
    \E retries \in RetriesOptions : \E retryOn \in RetryOnOptions :
        /\ pc = "idle"
        /\ call' = [tool |-> "restFetch",
                    retries |-> IF retries = Undefined THEN DEFAULT_RETRIES
                                ELSE retries.value,
                    retryOn |-> IF retryOn = Undefined THEN DEFAULT_RETRY_ON
                                ELSE retryOn.set,
                    attempt |-> 0,
                    lastError |-> Undefined,
                    last |-> NoOutcome,
                    waitMs |-> 0,
                    fetches |-> 0,
                    aborted |-> FALSE]
        /\ pc' = "loop"
        /\ UNCHANGED <<db, db0, resp, executed, yielded, log>>

\* attempt <= retries: the next fetch is issued
LoopEnter ==
    /\ pc = "loop"
    /\ call.attempt <= call.retries
    /\ call' = [call EXCEPT !.fetches = @ + 1]
    /\ pc' = "fetching"
    /\ UNCHANGED <<db, db0, resp, executed, yielded, log>>

\* the loop is over: throw lastError ?? new Error(...)
LoopExit ==
    /\ pc = "loop"
    /\ ~(call.attempt <= call.retries)
    /\ resp' = [kind |-> "thrown", error |-> ThrownAtEnd(call.lastError, call.retries)]
    /\ pc' = "done"
    /\ UNCHANGED <<db, db0, call, executed, yielded, log>>

\* fetch resolves with a response
FetchResponds ==
    \E status \in Statuses : \E header \in RetryAfterValues :
        LET response == [status |-> status, retryAfter |-> header] IN
        /\ pc = "fetching"
        /\ ~call.aborted
        /\ IF status \in call.retryOn /\ call.attempt < call.retries
           THEN /\ call' = [call EXCEPT
                               !.last = [kind |-> "response", response |-> response],
                               !.waitMs = waitMs(response, call.attempt)]
                /\ pc' = "waiting"
                /\ resp' = resp
           ELSE /\ call' = [call EXCEPT
                               !.last = [kind |-> "response", response |-> response]]
                /\ resp' = [kind |-> "returned", response |-> response]
                /\ pc' = "done"
        /\ UNCHANGED <<db, db0, executed, yielded, log>>

\* fetch rejects: the catch block.  The one AbortSignal.timeout(timeout)
\* is shared by every attempt, so after it fired every fetch rejects.
FetchThrows ==
    \E err \in ThrownValues :
        /\ pc = "fetching"
        /\ call.aborted => err = TimeoutError
        /\ IF call.attempt < call.retries
           THEN /\ call' = [call EXCEPT
                               !.last = [kind |-> "thrown", value |-> err],
                               !.lastError = AsError(err),
                               !.aborted = @ \/ err = TimeoutError,
                               !.waitMs = delay(call.attempt)]
                /\ pc' = "waiting"
           ELSE /\ call' = [call EXCEPT
                               !.last = [kind |-> "thrown", value |-> err],
                               !.lastError = AsError(err),
                               !.aborted = @ \/ err = TimeoutError,
                               !.attempt = @ + 1]
                /\ pc' = "loop"
        /\ UNCHANGED <<db, db0, resp, executed, yielded, log>>

\* the setTimeout of the wait fires: continue with attempt++
TimerFires ==
    /\ pc = "waiting"
    /\ call' = [call EXCEPT !.attempt = @ + 1]
    /\ pc' = "loop"
    /\ UNCHANGED <<db, db0, resp, executed, yielded, log>>

RestFetchSteps == LoopEnter \/ LoopExit \/ FetchResponds \/ FetchThrows \/ TimerFires

NextFetch == CallRestFetch \/ LoopEnter \/ LoopExit \/ FetchResponds
                 \/ FetchThrows \/ TimerFires \/ Return

\* A fetch settles (the timeout signal aborts it at the latest) and a timer
\* fires.
SpecFetch == InitFetch /\ [][NextFetch]_vars /\ WF_vars(RestFetchSteps)

----------------------------------------------------------------------------
(* Claims about restFetch (SpecFetch)                                      *)

InRestFetch == pc \in {"loop", "fetching", "waiting", "done"} /\ call.tool = "restFetch"

Retryable(outcome) ==
    outcome.kind = "response" /\ outcome.response.status \in call.retryOn

\* The parts of the claim that do not concern the throw.
FetchSafety ==
    InRestFetch =>
        /\ call.fetches <= Max({call.retries + 1, 0})
        /\ pc = "fetching" /\ call.attempt > 0
           => call.last.kind = "thrown" \/ Retryable(call.last)
        /\ call.last.kind = "response" /\ ~Retryable(call.last)
           => pc = "done" /\ resp = [kind |-> "returned", response |-> call.last.response]
        /\ call.last.kind = "response" /\ call.fetches = call.retries + 1
           /\ pc # "fetching"
           => pc = "done" /\ resp = [kind |-> "returned", response |-> call.last.response]
        /\ pc = "waiting"
           => /\ call.waitMs <= 30000
              /\ ~(call.last.kind = "response" /\ call.last.response.retryAfter.present)
                 => call.waitMs = delay(call.attempt) /\ call.waitMs <= 10000

\* restFetch threw and its final attempt threw that error.
ThrewLastError ==
    /\ call.last.kind = "thrown"
    /\ call.fetches = call.retries + 1
    /\ resp.error = AsError(call.last.value)

C29_WitnessNoAttempt ==
    InRestFetch /\ pc = "done" /\ resp.kind = "thrown" /\ call.fetches = 0

----------------------------------------------------------------------------
(* checkAndStageIfNeeded: stage a payload or hand it back (SpecAutoStage)  *)

\* A payload is a record: kind says what the value is ("string", "array",
\* an object with a "results", "features" or "variants" array, another
\* "object", or a "primitive"), bytes is the UTF-8 length of the string or
\* of JSON.stringify(data), pretty the extra length of
\* JSON.stringify(data, null, 2), and length the length of the array.

\* new TextEncoder().encode(typeof data === 'string' ? data : JSON.stringify(data)).length
payloadSize(data) == data.bytes

\* payloadSize > 20480, with the check left out.
OverHardLimit_off(size) == FALSE

\* payloadSize > 20480
OverHardLimit(size) == size > 20480

AlphaNumeric ==
    {"a", "b", "c", "d", "e", "f", "g", "h", "i", "j", "k", "l", "m", "n", "o",
     "p", "q", "r", "s", "t", "u", "v", "w", "x", "y", "z", "0", "1", "2", "3",
     "4", "5", "6", "7", "8", "9", "A", "B", "C", "D", "E", "F", "G", "H", "I",
     "J", "K", "L", "M", "N", "O", "P", "Q", "R", "S", "T", "U", "V", "W", "X",
     "Y", "Z"}

\* operationName.replace(/[^a-zA-Z0-9]/g, '_')
SafeTypeName(operationName) ==
    [i \in 1..Len(operationName) |->
        IF operationName[i] \in AlphaNumeric THEN operationName[i] ELSE "_"]

\* The entities of the staging format: their number and their types.
EntitiesOf(n, type) == [length |-> n, types |-> IF n = 0 THEN {} ELSE {type}]

convertToStagingFormat(data, operationName) ==
    CASE data.kind = "array" -> EntitiesOf(data.length, SafeTypeName(operationName))
      [] data.kind = "results" -> EntitiesOf(data.length, <<"protein">>)
      [] data.kind = "features" -> EntitiesOf(data.length, <<"feature">>)
      [] data.kind = "variants" -> EntitiesOf(data.length, <<"variant">>)
      [] data.kind = "object" -> EntitiesOf(1, <<"protein">>)
      [] OTHER -> EntitiesOf(1, SafeTypeName(operationName))

shouldBypassStaging(entities, size) ==
    IF size < 1024 /\ entities.length < 5
    THEN [bypass |-> TRUE, reason |-> "Very small dataset"]
    ELSE IF Cardinality(entities.types) = 1 /\ entities.length < 10 /\ size < 2048
    THEN [bypass |-> TRUE, reason |-> "Simple single-type dataset"]
    ELSE [bypass |-> FALSE, reason |-> "Dataset complexity justifies SQL staging"]

\* typeof data === 'string' ? data : JSON.stringify(data, null, 2)
formatResponseData(data) ==
    [text |-> "data",
     bytes |-> IF data.kind = "string" THEN data.bytes ELSE data.bytes + data.pretty]

\* The answers of the storage unit to the staging request; with no
\* environment no request is made.
StageAnswers == {"no environment", "ok", "not ok", "rejects"}

\* stageData(processedData): the id when the storage unit answered ok, a
\* throw otherwise.
stageData(d, processedData, dataAccessId, answer) ==
    IF answer = "ok"
    THEN [ok |-> TRUE, dataAccessId |-> dataAccessId,
          db |-> [id \in DOMAIN d \cup {dataAccessId} |->
                     IF id = dataAccessId
                     THEN [entity_count |-> processedData.length]
                     ELSE d[id]]]
    ELSE [ok |-> FALSE, dataAccessId |-> dataAccessId, db |-> d]

StagedSummary(dataAccessId, reason) ==
    [kind |-> "returned", shouldStage |-> TRUE, dataAccessId |-> dataAccessId,
     formattedData |-> [text |-> "Large Dataset Automatically Staged", reason |-> reason]]

DirectReturn(formatted) ==
    [kind |-> "returned", shouldStage |-> FALSE, formattedData |-> formatted]

checkAndStageIfNeeded(d, data, operationName, dataAccessId, answer) ==
    LET size == payloadSize(data)
        processedData == convertToStagingFormat(data, operationName)
        staged == stageData(d, processedData, dataAccessId, answer)
        stagingDecision == shouldBypassStaging(processedData, size)
    IN  IF OverHardLimit(size)
        THEN IF staged.ok
             THEN [resp |-> StagedSummary(dataAccessId, "exceeds 20KB limit"),
                   db |-> staged.db, staging |-> answer]
             ELSE [resp |-> [kind |-> "thrown",
                             message |-> "Response too large and staging failed"],
                   db |-> d, staging |-> answer]
        ELSE IF data.kind = "string" /\ size < 4096
        THEN [resp |-> DirectReturn([text |-> "data", bytes |-> data.bytes]),
              db |-> d, staging |-> "none"]
        ELSE IF stagingDecision.bypass
        THEN [resp |-> DirectReturn(formatResponseData(data)),
              db |-> d, staging |-> "none"]
        ELSE IF staged.ok
        THEN [resp |-> StagedSummary(dataAccessId, stagingDecision.reason),
              db |-> staged.db, staging |-> answer]
        ELSE [resp |-> DirectReturn(formatResponseData(data)),
              db |-> d, staging |-> answer]

MaxStagings == 2

PayloadSizes == {0, 1023, 1024, 2047, 2048, 4095, 4096, 20480, 20481, 40000}

ArrayLengths == {0, 1, 4, 5, 9, 10}

ResponsePayloads ==
    {[kind |-> "string", bytes |-> b, pretty |-> 0, length |-> 0] : b \in PayloadSizes}
    \cup {[kind |-> k, bytes |-> b, pretty |-> 100, length |-> n] :
              k \in {"array", "results", "features", "variants"},
              b \in PayloadSizes \ {0}, n \in ArrayLengths}
    \cup {[kind |-> "object", bytes |-> b, pretty |-> 100, length |-> 0] :
              b \in PayloadSizes \ {0}}
    \cup {[kind |-> "primitive", bytes |-> 4, pretty |-> 0, length |-> 0]}

OperationNames == {<<"s", "e", "a", "r", "c", "h", "_", "j", "s", "o", "n">>,
                   <<"e", "n", "t", "r", "y", "_", "P", "1", "-", "2">>}

\* `uniprot_${Date.now()}_${random}`: the id of the n-th call, new each time.
GeneratedId(n) == "uniprot_" \o ToString(n)

InitAutoStage ==
    /\ pc = "idle"
    /\ db = <<>>
    /\ db0 = <<>>
    /\ call = NoCall
    /\ resp = NoResp
    /\ executed = <<>>
    /\ yielded = <<>>
    /\ log = [calls |-> 0, staging |-> "none"]

CallCheckAndStage ==
    \E data \in ResponsePayloads : \E operationName \in OperationNames :
        /\ pc = "idle"
        /\ log.calls < MaxStagings
        /\ call' = [tool |-> "checkAndStageIfNeeded", data |-> data,
                    operationName |-> operationName]
        /\ pc' = "pending"
        /\ UNCHANGED <<db, db0, resp, executed, yielded, log>>

CheckedAndStaged(r) ==
    /\ resp' = r.resp
    /\ db' = r.db
    /\ log' = [calls |-> log.calls + 1, staging |-> r.staging]
    /\ pc' = "done"
    /\ UNCHANGED <<db0, call, executed, yielded>>

CheckAndStage ==
    \E answer \in StageAnswers :
        /\ pc = "pending"
        /\ call.tool = "checkAndStageIfNeeded"
        /\ CheckedAndStaged(checkAndStageIfNeeded(db, call.data, call.operationName,
                                                  GeneratedId(log.calls + 1), answer))

NextAutoStage == CallCheckAndStage \/ CheckAndStage \/ Return

SpecAutoStage == InitAutoStage /\ [][NextAutoStage]_vars

----------------------------------------------------------------------------
(* Claims about checkAndStageIfNeeded (SpecAutoStage)                      *)

\* The payload is small enough to bypass staging.
SmallEnough(data, operationName) ==
    \/ data.kind = "string" /\ payloadSize(data) < 4096
    \/ shouldBypassStaging(convertToStagingFormat(data, operationName),
                           payloadSize(data)).bypass

\* C30: checkAndStageIfNeeded never hands back directly a payload larger
\* than 20480 bytes: for such a payload it either returns shouldStage:true
\* with a data_access_id, after the storage unit accepted the staging
\* request, or throws a 'staging failed' error; only payloads of at most
\* 20480 bytes are returned with shouldStage:false, when small enough to
\* bypass staging or as the fallback when staging them fails.
C30_LargeNeverDirect ==
    pc = "done" /\ call.tool = "checkAndStageIfNeeded" =>
        /\ payloadSize(call.data) > 20480 =>
               \/ /\ resp.kind = "returned" /\ resp.shouldStage
                  /\ log.staging = "ok"
                  /\ resp.dataAccessId \in DOMAIN db
               \/ /\ resp.kind = "thrown"
                  /\ resp.message = "Response too large and staging failed"
                  /\ log.staging \in StageAnswers \ {"ok"}
        /\ resp.kind = "returned" /\ ~resp.shouldStage =>
               /\ payloadSize(call.data) <= 20480
               /\ \/ SmallEnough(call.data, call.operationName) /\ log.staging = "none"
                  \/ log.staging \in StageAnswers \ {"ok"}

\* A payload of more than 20480 bytes was staged and answered with its id.
C30_Witness ==
    /\ pc = "done" /\ call.tool = "checkAndStageIfNeeded"
    /\ payloadSize(call.data) = 20481
    /\ resp.kind = "returned" /\ resp.shouldStage
    /\ resp.dataAccessId \in DOMAIN db
====
